---- MODULE Spec2Model ----
(***************************************************************************)
(* Orchestration engine of the Recall app (services/MemoryEngine.ts):      *)
(* model lifecycle (captioner / embedder), the batch indexing pipeline and  *)
(* the single-flight search coordinator.                                    *)
(*                                                                          *)
(* Execution model: JavaScript's event loop.  One action is one            *)
(* synchronous run of a task between two awaits on an external operation   *)
(* (download, init, embed, destroy, a timer).  Continuations of an already  *)
(* settled promise are microtasks: they run before any further external     *)
(* event, which MicrotaskPending enforces.                                  *)
(***************************************************************************)
EXTENDS Integers, Sequences, FiniteSets, TLC

\* ---------------------------------------------------------------- bounds
MaxSearches == 3  \* search calls, search coordinator on its own
MaxOverlap == 1   \* search calls interleaved with indexFiles
MaxImages == 2
MaxPdfs == 1
MaxBatches == 1
MaxRuns == 2
MaxInitStored == 1
MaxRows == 11     \* rows scored by one executeSearch
MaxDim == 2       \* embedding dimensions
MaxTotal == 40    \* files of the batch a reportProgress call is about
MaxTextLen == 21  \* characters text extraction returns
MaxReads == 2     \* getAllFiles / getFileCount calls
MaxFiles == 3     \* files of a batch followed item by item
MaxFraction == 16 \* download progress is reported in steps of 1/MaxFraction

\* constants/config.ts
SEARCH_RESULTS_LIMIT == 10

Calls == 1..MaxSearches

\* query strings as character sequences: "", " ", "cat", "dog"
Queries == { <<>>, <<" ">>, <<"c", "a", "t">>, <<"d", "o", "g">> }

VARIABLES
    db,                        \* "null" | "open"                 (this.db)
    isInitialized,             \* BOOLEAN
    visionModel,               \* "null" | "created" | "ready"    (handle + instance state)
    embeddingModel,            \* "null" | "created" | "ready"
    embeddingModelLoading,     \* BOOLEAN
    embeddingModelLoadPromise, \* "null" | "pending" | "resolved" | "rejected"
    searchInProgress,          \* BOOLEAN
    searchQueue,               \* sequence of queued calls (query, resolve, reject)
    store,                     \* number of (files, file_vectors) row pairs
    loadPc,                    \* position of the embedder load task: "idle" | "download" | "init"
    spc,                       \* position of each search call
    squery,                    \* query argument of each live search call (<<>> once settled)
    sresult,                   \* what each search call's promise resolved with
    ranQuery,                  \* query argument of the executeSearch run for each call (<<>>: none running)
    overwritten,               \* history: calls whose queue entry was discarded
    failedExec,                \* history: calls whose execution hit a failure
    embLoads,                  \* history: embedder loads in flight or succeeded and still resident
    ipc,                       \* position of the indexFiles task
    iImages,                   \* number of images of the running batch
    iPdfs,                     \* number of PDFs of the running batch
    iIdx,                      \* loop index of the running phase
    batches,                   \* indexFiles calls made so far
    iresult,                   \* the last indexFiles call: "none" | "running" | "complete" | "rejected"
    iError,                    \* the error the indexFiles call caught or, once it has rejected, raised
    iSaved,                    \* history: FileRecords the running/last batch has written
    progress,                  \* history: phases handed to the callback during the running/last batch
    onProgress,                \* progress callback: "null" | "set"
    orphanFiles,               \* FileRecords that have no VectorRow
    scored,                    \* similarity of each scored row, in row order (executeSearch)
    searchResults,             \* rows executeSearch returns, as indices into scored
    rankPc,                    \* "scored" | "returned"
    queryText,                 \* query argument of executeSearch, as characters
    queryEmbedding,            \* embedding of the query
    row,                       \* one joined (files, file_vectors) row: embedding, caption, filename
    scoreOut,                  \* the scored entry executeSearch builds for row
    rpCall,                    \* arguments of one reportProgress call (<< >>: none)
    rpDelivered,               \* snapshots that call handed to the progress callback
    pdfFile,                   \* a document and what text extraction does for it (<< >>: none)
    pdfItems,                  \* captioned items produced for that document
    overlapping,               \* history: indexFiles was called before an earlier call returned
    reads,                     \* history: how each getAllFiles / getFileCount call ended
    files,                     \* the batch an indexFiles call was given: the kind of each file, in submission order
    itemPc,                    \* position of that call, followed item by item
    itemIdx,                   \* loop index of the running loop
    captionedFiles,            \* captionedFiles: the files captioned so far, as indices into files
    embeddedFiles,             \* embeddedFiles: the files embedded so far
    events,                    \* history: the external operations that call has completed, in order
    idleProgress,              \* hook: state.progress as the callback wrote it outside a batch
    searchTimeout,             \* hook: the query of the pending debounce timer (searchTimeoutRef)
    hookResults,               \* hook: searchResults, as the query whose rows they are
    lastAction,                \* history: the hook's last search(query) or clearSearch()
    hookCalls,                 \* history: the query of each engine search the hook has made
    hookSettled                \* history: the engine searches whose continuation in the hook has run

vars == << db, isInitialized, visionModel, embeddingModel, embeddingModelLoading,
           embeddingModelLoadPromise, searchInProgress, searchQueue, store, loadPc,
           spc, squery, sresult, ranQuery, overwritten, failedExec,
           embLoads, ipc, iImages, iPdfs, iIdx, batches, iresult, iError, iSaved,
           progress, onProgress, orphanFiles, scored, searchResults, rankPc,
           queryText, queryEmbedding, row, scoreOut, rpCall, rpDelivered, pdfFile, pdfItems,
           overlapping, reads,
           files, itemPc, itemIdx, captionedFiles, embeddedFiles, events,
           idleProgress,
           searchTimeout, hookResults, lastAction, hookCalls, hookSettled >>

dbVars     == << db, isInitialized >>
loaderVars == << embeddingModel, embeddingModelLoading, embeddingModelLoadPromise, loadPc, embLoads >>
indexVars  == << ipc, iImages, iPdfs, iIdx, batches, iresult, iError, iSaved >>
storeVars  == << store, orphanFiles >>
queueVars  == << searchInProgress, searchQueue, overwritten >>
scoreVars  == << queryText, queryEmbedding, row, scoreOut >>
reportVars == << rpCall, rpDelivered >>
pdfVars    == << pdfFile, pdfItems >>
hookVars   == << overlapping >>
readVars   == << reads >>
itemVars   == << files, itemPc, itemIdx, captionedFiles, embeddedFiles, events >>
snapshotVars == << idleProgress >>
debounceVars == << searchTimeout, hookResults, lastAction, hookCalls, hookSettled >>
rankVars   == << scored, searchResults, rankPc, scoreVars, reportVars, pdfVars, hookVars,
                 readVars,
                 itemVars,
                 snapshotVars,
                 debounceVars >>
\* rankVars but for the state of the hook that searches and loads write
searchFrame == << scored, searchResults, rankPc, scoreVars, reportVars, pdfVars, hookVars,
                 readVars,
                 itemVars >>
frameVars  == << searchFrame, debounceVars >>

\* ------------------------------------------------------- pure helpers

IsSpace(c) == c = " "

RECURSIVE TrimStart(_)
TrimStart(s) == IF s # <<>> /\ IsSpace(Head(s)) THEN TrimStart(Tail(s)) ELSE s

RECURSIVE TrimEnd(_)
TrimEnd(s) == IF s # <<>> /\ IsSpace(s[Len(s)]) THEN TrimEnd(SubSeq(s, 1, Len(s) - 1)) ELSE s

\* String.prototype.trim
Trim(s) == TrimEnd(TrimStart(s))

\* `!query.trim()`: the empty string is falsy
IsBlank(q) == Trim(q) = <<>>

\* An awaited embedder load has settled and its continuation has not run yet.
MicrotaskPending ==
    \/ \E i \in Calls : spc[i] \in {"loadOk", "loadFail"}
    \/ ipc \in {"loadOk", "loadFail"}
    \/ iresult \in {"complete", "rejected"}

\* ------------------------------------------------ setProgressCallback()

\* setProgressCallback(callback), called between indexFiles runs.
SetProgressCallback ==
    /\ ~MicrotaskPending
    /\ ipc = "idle"
    /\ onProgress = "null"
    /\ onProgress' = "set"
    /\ UNCHANGED << dbVars, visionModel, loaderVars, queueVars, storeVars, spc, squery, sresult,
                    ranQuery, failedExec, indexVars, progress, rankVars >>

\* --------------------------------------------------- reportProgress()

\* JavaScript numbers are IEEE 754 doubles.  A positive double is modelled as
\* a 53-bit significand times a power of two; the significand is kept as a
\* leading 1 followed by SignificandDigits digits of DigitBits bits each (most
\* significant first), so that every intermediate value fits the integers of
\* the model checker.
DigitBits == 13
SignificandDigits == 4
DigitBase == 2 ^ DigitBits
SignificandBits == 1 + SignificandDigits * DigitBits

\* n digits of the expansion of r / t for r < t, by long division.
RECURSIVE DivDigits(_, _, _)
DivDigits(r, t, n) ==
    IF n = 0 THEN << >>
    ELSE << (r * DigitBase) \div t >> \o DivDigits((r * DigitBase) % t, t, n - 1)

\* The remainder of that long division after n digits.
RECURSIVE DivRem(_, _, _)
DivRem(r, t, n) ==
    IF n = 0 THEN r ELSE DivRem((r * DigitBase) % t, t, n - 1)

\* digits * m + carry, digit by digit from the last; the first digit of the
\* result takes the final carry and may exceed the digit base.
RECURSIVE MulDigits(_, _, _)
MulDigits(digits, m, carry) ==
    IF Len(digits) = 1 THEN << digits[1] * m + carry >>
    ELSE LET n == Len(digits)
             p == digits[n] * m + carry
         IN  Append(MulDigits(SubSeq(digits, 1, n - 1), m, p \div DigitBase), p % DigitBase)

\* The significand plus one unit in the last place.
RECURSIVE Increment(_)
Increment(digits) ==
    LET n == Len(digits)
    IN  IF n = 1 THEN << digits[1] + 1 >>
        ELSE IF digits[n] + 1 < DigitBase
             THEN [digits EXCEPT ![n] = digits[n] + 1]
        ELSE Append(Increment(SubSeq(digits, 1, n - 1)), 0)

\* Round to nearest, ties to even: the 53 bits kept, the first bit dropped
\* (guard) and whether anything nonzero lies beyond it (sticky) give the
\* significand and the exponent of its last bit.
RoundToDouble(kept, guard, sticky, exponent) ==
    LET odd == kept[Len(kept)] % 2 = 1
        up == guard = 1 /\ (sticky \/ odd)
        rounded == IF up THEN Increment(kept) ELSE kept
    IN  IF rounded[1] = 2
        THEN [significand |-> << 1 >> \o [i \in 1..SignificandDigits |-> 0],
              exponent |-> exponent + 1]
        ELSE [significand |-> rounded, exponent |-> exponent]

\* `current / total` for positive integers: the double nearest to the
\* quotient.  The smaller operand is scaled by a power of two so that the
\* quotient of the scaled operands lies in [1, 2).
Quotient64(current, total) ==
    LET lead == IF current >= total THEN 0
                ELSE CHOOSE k \in 0..30 : total <= current * 2 ^ k /\ current * 2 ^ k < 2 * total
        lag == IF current < total THEN 0
               ELSE CHOOSE k \in 0..30 : total * 2 ^ k <= current /\ current < 2 * total * 2 ^ k
        n == current * 2 ^ lead
        d == total * 2 ^ lag
        r == n - d
        rest == DivRem(r, d, SignificandDigits)
    IN  RoundToDouble(<< 1 >> \o DivDigits(r, d, SignificandDigits),
                      (2 * rest) \div d, (2 * rest) % d # 0,
                      lag - lead - (SignificandBits - 1))

\* `x * 100` for a positive double x: the exact product, rounded.
Times100(x) ==
    LET product == MulDigits(x.significand, 100, 0)
        drop == CHOOSE k \in 6..7 : product[1] \div 2 ^ k = 1
        low(i) == product[i] % (2 ^ drop)
        kept == [i \in 1..(SignificandDigits + 1) |->
                    IF i = 1 THEN 1
                    ELSE low(i - 1) * 2 ^ (DigitBits - drop) + product[i] \div 2 ^ drop]
        dropped == low(SignificandDigits + 1)
    IN  RoundToDouble(kept, dropped \div 2 ^ (drop - 1), dropped % (2 ^ (drop - 1)) # 0,
                      x.exponent + drop)

\* Bit i of a significand, bit 1 the leading one.
SignificandBit(digits, i) ==
    IF i = 1 THEN 1
    ELSE (digits[2 + (i - 2) \div DigitBits]
             \div 2 ^ (DigitBits - 1 - ((i - 2) % DigitBits))) % 2

\* The integer made of the first n bits of a significand.
RECURSIVE LeadingBits(_, _)
LeadingBits(digits, n) ==
    IF n = 0 THEN 0 ELSE 2 * LeadingBits(digits, n - 1) + SignificandBit(digits, n)

\* Math.round(x) for a positive double x below 2^30: the integer part, plus one
\* if the fraction is one half or more.
MathRound(x) ==
    LET whole == SignificandBits + x.exponent
    IN  IF whole < 0 THEN 0
        ELSE LeadingBits(x.significand, whole) + SignificandBit(x.significand, whole + 1)

\* `total > 0 ? Math.round((current / total) * 100) : 0`
percentage(current, total) ==
    IF total > 0
    THEN (IF current = 0 THEN 0 ELSE MathRound(Times100(Quotient64(current, total))))
    ELSE 0

\* The ProcessingProgress object reportProgress builds.
progressSnapshot(phase, current, total, message) ==
    [phase |-> phase, current |-> current, total |-> total, message |-> message,
     percentage |-> percentage(current, total)]

\* no reportProgress call is being followed
NoReport ==
    /\ rpCall = << >>
    /\ rpDelivered = << >>

\* reportProgress(phase, current, total, message): `this.onProgress?.(progress)`
ReportProgress ==
    /\ rpCall # << >>
    /\ rpDelivered = << >>
    /\ onProgress = "set"
    /\ rpDelivered' = << progressSnapshot(rpCall[1].phase, rpCall[1].current, rpCall[1].total,
                                          rpCall[1].message) >>
    /\ UNCHANGED << rpCall, pdfVars, scored, searchResults, rankPc, scoreVars, dbVars,
                    visionModel, loaderVars, queueVars, storeVars, spc, squery, sresult,
                    ranQuery, failedExec, indexVars, progress, onProgress, hookVars,
                    readVars,
                    itemVars,
                    snapshotVars,
                    debounceVars >>

\* --------------------------------------------------------- initialize()

\* initialize(): open() may throw (db stays null); a CREATE statement may throw
\* after db was assigned (isInitialized stays false).
InitOutcomes == {"ok", "openFails", "createFails"}

initialize(outcome) ==
    IF isInitialized THEN UNCHANGED dbVars
    ELSE /\ db' = IF outcome = "openFails" THEN db ELSE "open"
         /\ isInitialized' = (outcome = "ok")

initializeThrows(outcome) == ~isInitialized /\ outcome # "ok"

\* The hook's mount effect (and any direct caller) calls engine.initialize().
Initialize(outcome) ==
    /\ ~MicrotaskPending
    /\ ~isInitialized
    /\ initialize(outcome)
    /\ UNCHANGED << visionModel, loaderVars, queueVars, storeVars, spc, squery, sresult,
                    ranQuery, failedExec, indexVars, progress >>
    /\ UNCHANGED rankVars
    /\ UNCHANGED onProgress

\* ------------------------------------------------- loadEmbeddingModel()

\* loadEmbeddingModelRoute without the wait on an in-flight load.
loadEmbeddingModelRouteNoWait ==
    IF embeddingModel # "null" THEN "return" ELSE "start"

\* Which of its three paths loadEmbeddingModel takes.
loadEmbeddingModelRoute ==
    IF embeddingModel # "null" THEN "return"
    ELSE IF embeddingModelLoading /\ embeddingModelLoadPromise # "null" THEN "wait"
    ELSE "start"

\* The callback the hook registers (useMemoryEngine.ts 92-98), called by
\* reportProgress(phase, ...) while no indexFiles call is in flight: the
\* snapshot is stored in the hook's state, with the number of indexFiles
\* calls made so far.
hookCallback(phase) ==
    idleProgress' = IF onProgress = "set" /\ iresult = "none"
                    THEN << [phase |-> phase, batches |-> batches] >>
                    ELSE idleProgress

\* reportProgress(phase, ...) called after the phases in `reported`: the phase
\* is handed to the callback if one is set; a phase reported again right after
\* itself is recorded once.
reportProgress(reported, phase) ==
    IF onProgress = "null" THEN reported
    ELSE IF reported # << >> /\ reported[Len(reported)] = phase THEN reported
    ELSE Append(reported, phase)

\* reportProgress called by the load task, which may run for a search while no
\* batch is running.
loadReports(reported) ==
    IF iresult = "running" THEN reportProgress(reported, "loading_embedding") ELSE reported

\* The synchronous part of loadEmbeddingModel up to its first await: on the
\* "start" path the flag is set and the load task runs up to download().
loadEmbeddingModel(route) ==
    IF route = "start"
    THEN /\ embeddingModelLoading' = TRUE
         /\ embeddingModelLoadPromise' = "pending"
         /\ embeddingModel' = "created"
         /\ loadPc' = "download"
         /\ embLoads' = embLoads + 1
    ELSE UNCHANGED loaderVars

\* What the load task reports before its first await, after the phases in
\* `reported`.
loadStartReports(route, reported) ==
    IF route = "start" THEN reportProgress(reported, "loading_embedding") ELSE reported

\* Tasks awaiting the load promise are woken with its outcome.
WakeSearch(ok) ==
    [i \in Calls |-> IF spc[i] = "load" THEN (IF ok THEN "loadOk" ELSE "loadFail") ELSE spc[i]]

WakeIndex(ok) ==
    IF ipc = "waitLoad" THEN (IF ok THEN "loadOk" ELSE "loadFail") ELSE ipc

\* Variant of LoadTaskFails without the finally block: the loading flag stays set.
LoadTaskFailsKeepsFlag ==
    /\ embeddingModel' = "null"
    /\ embeddingModelLoadPromise' = "rejected"
    /\ loadPc' = "idle"
    /\ embLoads' = embLoads - 1
    /\ spc' = WakeSearch(FALSE)
    /\ ipc' = WakeIndex(FALSE)
    /\ UNCHANGED embeddingModelLoading

\* catch + finally of the load task: handle cleared, flag cleared, promise rejected.
LoadTaskFails ==
    /\ embeddingModel' = "null"
    /\ embeddingModelLoading' = FALSE
    /\ embeddingModelLoadPromise' = "rejected"
    /\ loadPc' = "idle"
    /\ embLoads' = embLoads - 1
    /\ spc' = WakeSearch(FALSE)
    /\ ipc' = WakeIndex(FALSE)

\* download() settles.  After it the task dereferences this.embeddingModel again
\* for init(): a handle cleared meanwhile makes that a TypeError, caught like any
\* other failure.
LoadDownloadDone(ok) ==
    /\ ~MicrotaskPending
    /\ loadPc = "download"
    /\ IF ok /\ embeddingModel # "null"
       THEN /\ loadPc' = "init"
            /\ UNCHANGED << embeddingModel, embeddingModelLoading, embeddingModelLoadPromise,
                            embLoads, spc, ipc >>
       ELSE LoadTaskFails
    /\ progress' = IF ok /\ embeddingModel # "null" THEN loadReports(progress) ELSE progress
    /\ IF ok /\ embeddingModel # "null"
       THEN hookCallback("loading_embedding")
       ELSE UNCHANGED idleProgress
    /\ UNCHANGED << dbVars, visionModel, queueVars, storeVars, squery, sresult, ranQuery,
                    failedExec, iImages, iPdfs, iIdx, batches, iresult, iError, iSaved >>
    /\ UNCHANGED frameVars
    /\ UNCHANGED onProgress

\* init() settles.
LoadInitDone(ok) ==
    /\ ~MicrotaskPending
    /\ loadPc = "init"
    /\ IF ok
       THEN /\ embeddingModel' = IF embeddingModel = "null" THEN "null" ELSE "ready"
            /\ embeddingModelLoading' = FALSE
            /\ embeddingModelLoadPromise' = "resolved"
            /\ loadPc' = "idle"
            /\ embLoads' = IF embeddingModel = "null" THEN embLoads - 1 ELSE embLoads
            /\ spc' = WakeSearch(TRUE)
            /\ ipc' = WakeIndex(TRUE)
            /\ progress' = loadReports(progress)
            /\ hookCallback("loading_embedding")
       ELSE /\ LoadTaskFails
            /\ UNCHANGED << progress, idleProgress >>
    /\ UNCHANGED << dbVars, visionModel, queueVars, storeVars, squery, sresult, ranQuery,
                    failedExec, iImages, iPdfs, iIdx, batches, iresult, iError, iSaved >>
    /\ UNCHANGED frameVars
    /\ UNCHANGED onProgress

\* ------------------------------------------------------------- search()

\* Calls inside executeSearch (between searchInProgress = true and the finally).
Executing == { i \in Calls : spc[i] \in {"load", "loadOk", "loadFail", "embed"} }

\* searchRoute without the in-progress check.
searchRouteNoFlag(q, inProgress) ==
    IF IsBlank(q) THEN "blank" ELSE "execute"

\* searchRoute queueing every non-blank query.
searchRouteAlwaysQueue(q, inProgress) ==
    IF IsBlank(q) THEN "blank" ELSE "queue"

\* The path search(query) takes once the database handle exists.
searchRoute(q, inProgress) ==
    IF IsBlank(q) THEN "blank"
    ELSE IF inProgress THEN "queue"
    ELSE "execute"

\* enqueue without the clearing assignment.
enqueueKeepAll(queue, entry) == Append(queue, entry)

\* `this.searchQueue = []; this.searchQueue.push(entry)`
enqueue(queue, entry) == << entry >>

\* queuedQuery handing over the query that has just finished.
queuedQueryOfFinished(next) == ranQuery[CHOOSE i \in Executing : TRUE]

\* The query the finally block hands to the recursive search call.
queuedQuery(next) == squery[next]

\* executeSearch up to its first await: load the embedder if the handle is unset,
\* else call embed() on the handle straight away.
executeSearchBegin ==
    IF embeddingModel = "null"
    THEN /\ loadEmbeddingModel(loadEmbeddingModelRoute)
         /\ progress' = IF iresult = "running"
                         THEN loadStartReports(loadEmbeddingModelRoute, progress)
                         ELSE progress
         /\ IF loadEmbeddingModelRoute = "start"
            THEN hookCallback("loading_embedding")
            ELSE UNCHANGED idleProgress
    ELSE UNCHANGED << loaderVars, progress, idleProgress >>

executeSearchBeginPc == IF embeddingModel = "null" THEN "load" ELSE "embed"

\* search() starts for a fresh caller.  `if (!this.db) await this.initialize()`
\* runs outside any try: a throwing initialize rejects the returned promise.
SearchInitThrows(i, q, outcome) ==
    /\ db = "null"
    /\ initializeThrows(outcome)
    /\ initialize(outcome)
    /\ spc' = [spc EXCEPT ![i] = "rejected"]
    /\ UNCHANGED << visionModel, loaderVars, queueVars, storeVars, squery, sresult, ranQuery,
                    failedExec, indexVars, progress, idleProgress >>

SearchBlank(i, q, outcome) ==
    /\ ~(db = "null" /\ initializeThrows(outcome))
    /\ IF db = "null" THEN initialize(outcome) ELSE UNCHANGED dbVars
    /\ searchRoute(q, searchInProgress) = "blank"
    /\ spc' = [spc EXCEPT ![i] = "resolved"]
    /\ sresult' = [sresult EXCEPT ![i] = "empty"]
    /\ UNCHANGED << visionModel, loaderVars, queueVars, storeVars, squery, ranQuery,
                    failedExec, indexVars, progress, idleProgress >>

SearchQueued(i, q, outcome) ==
    /\ ~(db = "null" /\ initializeThrows(outcome))
    /\ IF db = "null" THEN initialize(outcome) ELSE UNCHANGED dbVars
    /\ searchRoute(q, searchInProgress) = "queue"
    /\ searchQueue' = enqueue(searchQueue, i)
    /\ overwritten' = overwritten \cup
                        { searchQueue[k] : k \in { n \in 1..Len(searchQueue) :
                                                     \A m \in 1..Len(searchQueue') :
                                                        searchQueue'[m] # searchQueue[n] } }
    /\ spc' = [spc EXCEPT ![i] = "queued"]
    /\ squery' = [squery EXCEPT ![i] = q]
    /\ UNCHANGED << visionModel, loaderVars, searchInProgress, storeVars, sresult, ranQuery,
                    failedExec, indexVars, progress, idleProgress >>

SearchExecute(i, q, outcome) ==
    /\ ~(db = "null" /\ initializeThrows(outcome))
    /\ IF db = "null" THEN initialize(outcome) ELSE UNCHANGED dbVars
    /\ searchRoute(q, searchInProgress) = "execute"
    /\ searchInProgress' = TRUE
    /\ executeSearchBegin
    /\ spc' = [spc EXCEPT ![i] = executeSearchBeginPc]
    /\ squery' = [squery EXCEPT ![i] = q]
    /\ ranQuery' = [ranQuery EXCEPT ![i] = q]
    /\ UNCHANGED << visionModel, searchQueue, overwritten, storeVars, sresult,
                    failedExec, indexVars >>

\* search(q) as caller i runs up to its first await or to its return.  Callers
\* are numbered in call order.
search(i, q) ==
    /\ ~MicrotaskPending
    /\ spc[i] = "new"
    /\ \A j \in Calls : j < i => spc[j] # "new"
    /\ \E outcome \in (IF db = "null" THEN InitOutcomes ELSE {"ok"}) :
          \/ SearchInitThrows(i, q, outcome)
          \/ SearchBlank(i, q, outcome)
          \/ SearchQueued(i, q, outcome)
          \/ SearchExecute(i, q, outcome)
    /\ UNCHANGED onProgress

\* A caller invokes search(q) on the engine.
Search(i, q) ==
    /\ search(i, q)
    /\ UNCHANGED frameVars

\* executeSearch of call i returns `res`; then search()'s finally block runs:
\* the flag is cleared and, if an entry is queued, it is shifted out and
\* search(next.query) is called at once, its promise chained to the entry's
\* resolve/reject.
searchFinally(i, res, failed) ==
    LET hasNext == searchQueue # <<>>
        next    == Head(searchQueue)
        route   == searchRoute(queuedQuery(next), FALSE)
    IN  /\ failedExec' = IF failed THEN failedExec \cup {i} ELSE failedExec
        /\ IF hasNext
           THEN /\ searchQueue' = Tail(searchQueue)
                /\ IF route = "execute"
                   THEN /\ searchInProgress' = TRUE
                        /\ executeSearchBegin
                        /\ spc' = [spc EXCEPT ![i] = "resolved", ![next] = executeSearchBeginPc]
                        /\ sresult' = [sresult EXCEPT ![i] = res]
                        /\ squery' = [squery EXCEPT ![i] = << >>]
                        /\ ranQuery' = [ranQuery EXCEPT ![i] = << >>, ![next] = queuedQuery(next)]
                   ELSE /\ searchInProgress' = FALSE
                        /\ UNCHANGED << loaderVars, progress, idleProgress >>
                        /\ spc' = [spc EXCEPT ![i] = "resolved", ![next] = "resolved"]
                        /\ sresult' = [sresult EXCEPT ![i] = res, ![next] = "empty"]
                        /\ squery' = [squery EXCEPT ![i] = << >>, ![next] = << >>]
                        /\ ranQuery' = [ranQuery EXCEPT ![i] = << >>]
           ELSE /\ searchInProgress' = FALSE
                /\ spc' = [spc EXCEPT ![i] = "resolved"]
                /\ sresult' = [sresult EXCEPT ![i] = res]
                /\ squery' = [squery EXCEPT ![i] = << >>]
                /\ ranQuery' = [ranQuery EXCEPT ![i] = << >>]
                /\ UNCHANGED << searchQueue, loaderVars, progress, idleProgress >>
        /\ UNCHANGED overwritten

\* What the rest of executeSearch yields once embed() has settled.  The row
\* fetch and the per-row JSON.parse are synchronous; every throw is caught.
EmbedOutcomes == {"ok", "embedFails", "fetchFails", "decodeFails"}

\* executeSearchResult without the catch-all: rows whatever the outcome.
executeSearchResultNoCatch(outcome) ==
    IF store > 0 THEN "rows" ELSE "empty"

executeSearchResult(outcome) ==
    IF outcome = "ok" /\ store > 0 THEN "rows" ELSE "empty"

\* embed() of the running query settles.
SearchEmbedDone(i, outcome) ==
    /\ ~MicrotaskPending
    /\ spc[i] = "embed"
    /\ outcome = "decodeFails" => store > 0
    /\ searchFinally(i, executeSearchResult(outcome), outcome # "ok")
    /\ UNCHANGED << dbVars, visionModel, storeVars, indexVars >>
    /\ UNCHANGED frameVars
    /\ UNCHANGED onProgress

\* Continuation of `await this.loadEmbeddingModel()` inside executeSearch.
\* generateEmbedding throws when the handle is unset.
SearchAfterLoad(i) ==
    /\ spc[i] \in {"loadOk", "loadFail"}
    /\ IF spc[i] = "loadOk" /\ embeddingModel # "null"
       THEN /\ spc' = [spc EXCEPT ![i] = "embed"]
            /\ UNCHANGED << loaderVars, queueVars, squery, sresult, ranQuery, failedExec,
                            progress, idleProgress >>
       ELSE searchFinally(i, "empty", TRUE)
    /\ UNCHANGED << dbVars, visionModel, storeVars, indexVars >>
    /\ UNCHANGED frameVars
    /\ UNCHANGED onProgress

\* ------------------------------------------- executeSearch(): scoring
\* Scores are fixed-point numbers in thousandths: 1000 stands for 1.0.

\* all sequences over S of length at most n
SeqsUpTo(S, n) == UNION { [1..k -> S] : k \in 0..n }

\* components an embedding vector can carry
Components == {-1, 0, 1}

Vectors == SeqsUpTo(Components, MaxDim)

\* texts as character sequences: captions "", "a cat", "Dog"; file names "x",
\* "dog"; queries "cat", "dog", "cat dog", "Cat a"
Captions == { << >>, <<"a", " ", "c", "a", "t">>, <<"D", "o", "g">> }
Filenames == { <<"x">>, <<"d", "o", "g">> }
ScoreQueries == { q \in Queries : ~IsBlank(q) }
                  \cup { <<"c", "a", "t", " ", "d", "o", "g">>, <<"C", "a", "t", " ", "a">> }

RECURSIVE SumOver(_, _)
SumOver(f, n) == IF n = 0 THEN 0 ELSE f[n] + SumOver(f, n - 1)

\* the largest r in lo..hi with r * r <= n, by bisection
RECURSIVE SqrtBetween(_, _, _)
SqrtBetween(n, lo, hi) ==
    IF lo = hi THEN lo
    ELSE LET mid == (lo + hi + 1) \div 2
         IN  IF mid * mid <= n THEN SqrtBetween(n, mid, hi) ELSE SqrtBetween(n, lo, mid - 1)

\* Math.sqrt of the integer n, in thousandths
Sqrt(n) == SqrtBetween(n * 1000 * 1000, 0, 1000 * n)

\* division of JavaScript numbers, truncated to thousandths
Quotient(a, b) == IF a >= 0 THEN a \div b ELSE -((-a) \div b)

\* cosineSimilarity without the length check: the dot product over a's indices
\* that b has too.
cosineSimilarityCommonPrefix(a, b) ==
    LET n == IF Len(a) < Len(b) THEN Len(a) ELSE Len(b)
        dotProduct == SumOver([i \in 1..n |-> a[i] * b[i]], n)
        normA == SumOver([i \in 1..n |-> a[i] * a[i]], n)
        normB == SumOver([i \in 1..n |-> b[i] * b[i]], n)
        denominator == Sqrt(normA) * Sqrt(normB)
    IN  IF denominator = 0 THEN 0 ELSE Quotient(dotProduct * 1000 * 1000, denominator \div 1000)

cosineSimilarity(a, b) ==
    IF Len(a) # Len(b) THEN 0
    ELSE LET n == Len(a)
             dotProduct == SumOver([i \in 1..n |-> a[i] * b[i]], n)
             normA == SumOver([i \in 1..n |-> a[i] * a[i]], n)
             normB == SumOver([i \in 1..n |-> b[i] * b[i]], n)
             denominator == Sqrt(normA) * Sqrt(normB)
         IN  IF denominator = 0 THEN 0 ELSE Quotient(dotProduct * 1000 * 1000, denominator \div 1000)

\* String.prototype.toLowerCase on the letters used here
toLowerCase(s) ==
    [i \in 1..Len(s) |-> CASE s[i] = "C" -> "c" [] s[i] = "D" -> "d" [] OTHER -> s[i]]

\* s.split(/\s+/) without the empty strings it can yield at either end (the
\* length filter of keywordMatchScore drops them anyway)
RECURSIVE split(_, _)
split(s, word) ==
    IF s = << >> THEN (IF word = << >> THEN << >> ELSE << word >>)
    ELSE IF IsSpace(Head(s))
         THEN (IF word = << >> THEN << >> ELSE << word >>) \o split(Tail(s), << >>)
         ELSE split(Tail(s), Append(word, Head(s)))

\* String.prototype.includes
includes(text, word) ==
    \E k \in 0..(Len(text) - Len(word)) : SubSeq(text, k + 1, k + Len(word)) = word

keywordMatchScore(query, text) ==
    LET queryWords == SelectSeq(split(toLowerCase(query), << >>), LAMBDA w : Len(w) > 2)
        textLower == toLowerCase(text)
        matchCount == Cardinality({ k \in 1..Len(queryWords) : includes(textLower, queryWords[k]) })
    IN  IF Len(queryWords) = 0 THEN 0 ELSE (matchCount * 1000) \div Len(queryWords)

Max(a, b) == IF a > b THEN a ELSE b
Min(a, b) == IF a < b THEN a ELSE b

\* `semanticScore * 0.6 + keywordScore * 0.4`
hybridScore(semanticScore, keywordScore) ==
    Quotient(semanticScore * 600 + keywordScore * 400, 1000)

\* `Math.min(1, hybridScore * 1.5)`
displaySimilarity(hybrid) == Min(1000, Quotient(hybrid * 3, 2))

\* no row is being scored
NoScore == [done |-> FALSE, semanticScore |-> 0, keywordScore |-> 0, similarity |-> 0, distance |-> 0]

NoScoring ==
    /\ queryText = << >>
    /\ queryEmbedding = << >>
    /\ row = [embedding |-> << >>, caption |-> << >>, filename |-> << >>]
    /\ scoreOut = NoScore

\* the callback of `results.rows.map` applied to row
ScoreRow ==
    /\ ~scoreOut.done
    /\ LET semanticScore == cosineSimilarity(queryEmbedding, row.embedding)
           keywordScore == Max(keywordMatchScore(queryText, row.caption),
                               keywordMatchScore(queryText, row.filename))
           similarity == displaySimilarity(hybridScore(semanticScore, keywordScore))
       IN  scoreOut' = [done |-> TRUE, semanticScore |-> semanticScore,
                        keywordScore |-> keywordScore, similarity |-> similarity,
                        distance |-> 1000 - similarity]
    /\ UNCHANGED << queryText, queryEmbedding, row, scored, searchResults, rankPc, dbVars,
                    visionModel, loaderVars, queueVars, storeVars, spc, squery, sresult,
                    ranQuery, failedExec, indexVars, progress, onProgress, reportVars,
                    pdfVars, hookVars, readVars,
                    itemVars,
                    snapshotVars,
                    debounceVars >>

\* ------------------------------------------- executeSearch(): ranking

\* similarity values (percent) a scored row can carry
Similarities == {30, 90}

\* `(a, b) => b.similarity - a.similarity` on rows a and b of scored
compareFn(a, b) == scored[b] - scored[a]

\* insertSorted placing a row before the rows that compare equal to it.
RECURSIVE insertSortedBeforeEqual(_, _)
insertSortedBeforeEqual(x, s) ==
    IF s = << >> THEN << x >>
    ELSE IF compareFn(Head(s), x) < 0
         THEN << Head(s) >> \o insertSortedBeforeEqual(x, Tail(s))
         ELSE << x >> \o s

\* Array.prototype.sort is stable: a row goes behind every row that the
\* comparator does not order after it.
RECURSIVE insertSorted(_, _)
insertSorted(x, s) ==
    IF s = << >> THEN << x >>
    ELSE IF compareFn(Head(s), x) <= 0
         THEN << Head(s) >> \o insertSorted(x, Tail(s))
         ELSE << x >> \o s

RECURSIVE sort(_)
sort(rows) ==
    IF rows = << >> THEN << >>
    ELSE insertSorted(rows[Len(rows)], sort(SubSeq(rows, 1, Len(rows) - 1)))

\* Array.prototype.slice(0, end)
slice(rows, end) == SubSeq(rows, 1, IF end < Len(rows) THEN end ELSE Len(rows))

\* `scored.sort(...).slice(0, SEARCH_RESULTS_LIMIT)`
RankResults ==
    /\ rankPc = "scored"
    /\ searchResults' = slice(sort([k \in 1..Len(scored) |-> k]), SEARCH_RESULTS_LIMIT)
    /\ rankPc' = "returned"
    /\ UNCHANGED << scored, scoreVars, dbVars, visionModel, loaderVars, queueVars, storeVars,
                    spc, squery, sresult, ranQuery, failedExec, indexVars, progress, onProgress,
                    reportVars, pdfVars, hookVars, readVars,
                    itemVars,
                    snapshotVars,
                    debounceVars >>

\* ------------------------------------------------- generatePdfCaption()

\* `name.replace(/\.pdf$/i, '')` on a name given as its characters
stripPdfSuffix(name) ==
    LET n == Len(name)
    IN  IF /\ n >= 4
           /\ name[n - 3] = "."
           /\ name[n - 2] \in {"p", "P"}
           /\ name[n - 1] \in {"d", "D"}
           /\ name[n] \in {"f", "F"}
        THEN SubSeq(name, 1, n - 4)
        ELSE name

\* `.replace(/[_-]/g, ' ')`
spaceSeparators(name) == [i \in 1..Len(name) |-> IF name[i] \in {"_", "-"} THEN " " ELSE name[i]]

cleanName(name) == spaceSeparators(stripPdfSuffix(name))

\* extractPdfText(uri): the text of the native extractor, '' if it throws
extractPdfText(extraction) == IF extraction.throws THEN << >> ELSE extraction.text

\* generatePdfCaption with the content caption from 20 characters on
generatePdfCaptionFromMinimum(name, extraction) ==
    LET extractedText == extractPdfText(extraction)
    IN  IF extractedText # << >> /\ Len(extractedText) >= 20
        THEN << "PDF: " >> \o cleanName(name) \o << ". Content: " >> \o extractedText
        ELSE << "PDF document: " >> \o cleanName(name)

\* generatePdfCaption(file), given what text extraction does for the file
generatePdfCaption(name, extraction) ==
    LET extractedText == extractPdfText(extraction)
    IN  IF extractedText # << >> /\ Len(extractedText) > 20
        THEN << "PDF: " >> \o cleanName(name) \o << ". Content: " >> \o extractedText
        ELSE << "PDF document: " >> \o cleanName(name)

\* no document is being captioned
NoDocument ==
    /\ pdfFile = << >>
    /\ pdfItems = << >>

\* One iteration of the PDF loop of indexFiles.
GeneratePdfCaption ==
    /\ pdfFile # << >>
    /\ pdfItems = << >>
    /\ pdfItems' = Append(pdfItems,
                          [file |-> pdfFile[1].name,
                           caption |-> generatePdfCaption(pdfFile[1].name, pdfFile[1].extraction),
                           thumbnail |-> "null"])
    /\ UNCHANGED << pdfFile, reportVars, scored, searchResults, rankPc, scoreVars, dbVars,
                    visionModel, loaderVars, queueVars, storeVars, spc, squery, sresult,
                    ranQuery, failedExec, indexVars, progress, onProgress, hookVars,
                    readVars,
                    itemVars,
                    snapshotVars,
                    debounceVars >>

\* --------------------------------------------------------- indexFiles()

\* constants/config.ts
USE_VISION_MODEL == TRUE

\* unloadEmbeddingModel after `await destroy()`: the handle is cleared.
unloadEmbeddingModelDone ==
    /\ embeddingModel' = "null"
    /\ embLoads' = IF embeddingModel # "null" /\ loadPc = "idle" THEN embLoads - 1 ELSE embLoads
    /\ UNCHANGED << embeddingModelLoading, embeddingModelLoadPromise, loadPc >>

\* catch block of indexFiles: unloadVisionModel, then unloadEmbeddingModel, then
\* rethrow.  Each unload awaits destroy() only if its handle is set.
errorPc ==
    IF visionModel # "null" THEN "errUnloadVis"
    ELSE IF embeddingModel # "null" THEN "errUnloadEmb"
    ELSE "idle"

\* Locals of indexFiles (the batch and the loop index) exist while it runs.
indexLocals(nI, nP, idx) ==
    /\ iImages' = IF ipc' = "idle" THEN 0 ELSE nI
    /\ iPdfs' = IF ipc' = "idle" THEN 0 ELSE nP
    /\ iIdx' = IF ipc' = "idle" THEN 0 ELSE idx

\* A throw inside the try block of indexFiles, after the phases in `reported`:
\* the catch reports error and starts the cleanup (unloadVisionModel reports
\* unloading_vision if the captioner handle is set).
indexFail(cause, reported) ==
    /\ progress' = IF visionModel # "null"
                    THEN reportProgress(reportProgress(reported, "error"), "unloading_vision")
                    ELSE reportProgress(reported, "error")
    /\ iError' = cause
    /\ ipc' = errorPc
    /\ iresult' = IF errorPc = "idle" THEN "rejected" ELSE "running"

\* The cleanup of the catch block has finished: the caught error is rethrown.
indexRethrow ==
    /\ ipc' = "idle"
    /\ iresult' = "rejected"
    /\ UNCHANGED << iError, progress >>

\* A throw of destroy() inside the catch block of indexFiles: the call rejects
\* with the error of destroy(), the rest of the cleanup does not run.
indexCleanupThrows ==
    /\ ipc' = "idle"
    /\ iresult' = "rejected"
    /\ iError' = "cleanup"
    /\ UNCHANGED progress

\* indexFiles goes on to the await at `pc`.
indexGoto(pc, reported) ==
    /\ ipc' = pc
    /\ progress' = reported
    /\ iresult' = "running"
    /\ iError' = "none"

\* PHASE 4 with nothing left to write, and PHASE 5.
indexComplete(reported) ==
    /\ progress' = reportProgress(reportProgress(reported, "saving"), "complete")
    /\ ipc' = "idle"
    /\ iresult' = "complete"
    /\ iError' = "none"

\* The embedding loop for n captioned files up to its first await:
\* generateEmbedding throws on an unset handle; with no files the loops are
\* empty and the run completes.
indexEmbedLoop(n, reported) ==
    IF n = 0 THEN indexComplete(reported)
    ELSE IF embeddingModel = "null"
         THEN indexFail("embed", reportProgress(reported, "embedding"))
         ELSE indexGoto("embed", reportProgress(reported, "embedding"))

\* PHASE 3 entry: `await this.loadEmbeddingModel()`.  On the "return" path the
\* call's promise is already resolved and indexFiles continues as a microtask.
indexLoadEmbedder(reported) ==
    LET route == loadEmbeddingModelRoute
    IN  /\ loadEmbeddingModel(route)
        /\ indexGoto(IF route = "return" THEN "loadOk" ELSE "waitLoad",
                     loadStartReports(route, reported))

\* After PHASE 1: PDFs if any (the first one is reported and awaited), else the
\* embedder.
indexAfterImages(nP, reported) ==
    IF nP > 0
    THEN /\ indexGoto("pdf", reportProgress(reported, "captioning"))
         /\ UNCHANGED loaderVars
    ELSE indexLoadEmbedder(reported)

\* PHASE 1 is entered for a batch with nI images.
needsVision(nI) == nI > 0 /\ USE_VISION_MODEL

\* Variant of pendingSave that writes each row as soon as it is embedded.
pendingSaveEachEmbedded(idx, n, written) == idx - written

\* the saving phase leaving out the last embedded file
pendingSaveAllButLast(idx, n, written) == IF idx = n THEN n - 1 - written ELSE 0

\* The rows the saving loop writes once item idx of n is embedded, `written` of
\* them being written already: the loop runs after the embedding loop.
pendingSave(idx, n, written) == IF idx = n THEN n - written ELSE 0

\* `this.reportProgress('complete', totalFiles, totalFiles, ...)`
completeSnapshot(totalFiles) ==
    progressSnapshot("complete", totalFiles, totalFiles, << totalFiles, " files indexed" >>)

\* A caller invokes indexFiles with nI images and nP PDFs.  initialize() runs
\* before the try block: its throw rejects the call with nothing reported.
IndexFiles(nI, nP, outcome) ==
    /\ ~MicrotaskPending
    /\ ipc = "idle"
    /\ batches' = batches + 1
    /\ iSaved' = 0
    /\ initialize(outcome)
    /\ IF initializeThrows(outcome)
       THEN /\ iresult' = "rejected"
            /\ iError' = "init"
            /\ progress' = << >>
            /\ UNCHANGED << ipc, visionModel, loaderVars >>
       ELSE IF needsVision(nI)
            THEN IF embeddingModel # "null"
                 THEN /\ indexGoto("unloadEmb", << >>)
                      /\ UNCHANGED << visionModel, loaderVars >>
                 ELSE /\ visionModel' = "created"
                      /\ indexGoto("visDownload", reportProgress(<< >>, "loading_vision"))
                      /\ UNCHANGED loaderVars
            ELSE /\ indexAfterImages(nP, IF nI > 0 THEN reportProgress(<< >>, "captioning") ELSE << >>)
                 /\ UNCHANGED visionModel
    /\ indexLocals(nI, nP, 1)
    /\ UNCHANGED << queueVars, storeVars, spc, squery, sresult, ranQuery, failedExec >>
    /\ UNCHANGED rankVars
    /\ UNCHANGED onProgress

\* destroy() of the embedder settles (unload before the captioner is loaded).
IndexUnloadEmbDone(fails) ==
    /\ ~MicrotaskPending
    /\ ipc = "unloadEmb"
    /\ IF fails
       THEN /\ indexFail("unload", progress)
            /\ UNCHANGED loaderVars
       ELSE /\ unloadEmbeddingModelDone
            /\ indexGoto("embSettle", progress)
    /\ UNCHANGED << dbVars, visionModel, queueVars, storeVars, spc, squery, sresult, ranQuery,
                    failedExec, iImages, iPdfs, iIdx, batches, iSaved >>
    /\ UNCHANGED rankVars
    /\ UNCHANGED onProgress

\* delay(2000) elapses; loadVisionModel creates the captioner and awaits its download.
IndexEmbSettleDone ==
    /\ ~MicrotaskPending
    /\ ipc = "embSettle"
    /\ visionModel' = "created"
    /\ indexGoto("visDownload", reportProgress(progress, "loading_vision"))
    /\ UNCHANGED << dbVars, loaderVars, queueVars, storeVars, spc, squery, sresult, ranQuery,
                    failedExec, iImages, iPdfs, iIdx, batches, iSaved >>
    /\ UNCHANGED rankVars
    /\ UNCHANGED onProgress

\* getModels()/download() of the captioner settle.
IndexVisDownloadDone(ok) ==
    /\ ~MicrotaskPending
    /\ ipc = "visDownload"
    /\ IF ok
       THEN indexGoto("visInit", reportProgress(progress, "loading_vision"))
       ELSE indexFail("visionLoad", progress)
    /\ indexLocals(iImages, iPdfs, iIdx)
    /\ UNCHANGED << dbVars, visionModel, loaderVars, queueVars, storeVars, spc, squery, sresult,
                    ranQuery, failedExec, batches, iSaved >>
    /\ UNCHANGED rankVars
    /\ UNCHANGED onProgress

\* init() of the captioner settles; on success the image loop starts.
IndexVisInitDone(ok) ==
    /\ ~MicrotaskPending
    /\ ipc = "visInit"
    /\ IF ok
       THEN /\ visionModel' = "ready"
            /\ indexGoto("caption", reportProgress(reportProgress(progress, "loading_vision"),
                                                   "captioning"))
       ELSE /\ indexFail("visionLoad", progress)
            /\ UNCHANGED visionModel
    /\ indexLocals(iImages, iPdfs, 1)
    /\ UNCHANGED << dbVars, loaderVars, queueVars, storeVars, spc, squery, sresult,
                    ranQuery, failedExec, batches, iSaved >>
    /\ UNCHANGED rankVars
    /\ UNCHANGED onProgress

\* How the body of the image loop ends for one image: a failed resize falls
\* back to the original file and a failed complete() is caught inside
\* captionImage (fallback caption from the file name); a throw of
\* getReadableFilePath or of reset() is not caught in the loop.
CaptionOutcomes == {"ok", "resizeFails", "captionFails", "pathFails", "resetFails"}

captionThrows(outcome) == outcome \in {"pathFails", "resetFails"}

\* One image's resize, path resolution, caption and context reset settle.
IndexCaptionDone(outcome) ==
    /\ ~MicrotaskPending
    /\ ipc = "caption"
    /\ IF captionThrows(outcome)
       THEN /\ indexFail(outcome, progress)
            /\ UNCHANGED loaderVars
       ELSE IF iIdx < iImages
            THEN /\ indexGoto("captionCool", progress)
                 /\ UNCHANGED loaderVars
            ELSE IF visionModel # "null"
                 THEN /\ indexGoto("unloadVis", reportProgress(progress, "unloading_vision"))
                      /\ UNCHANGED loaderVars
                 ELSE indexAfterImages(iPdfs, progress)
    /\ indexLocals(iImages, iPdfs, IF ipc' \in {"pdf", "waitLoad", "loadOk"} THEN 1 ELSE iIdx)
    /\ UNCHANGED << dbVars, visionModel, queueVars, storeVars, spc, squery, sresult,
                    ranQuery, failedExec, batches, iSaved >>
    /\ UNCHANGED rankVars
    /\ UNCHANGED onProgress

\* delay(COOL_DOWN_VISION_MS) elapses.
IndexCaptionCoolDone ==
    /\ ~MicrotaskPending
    /\ ipc = "captionCool"
    /\ indexGoto("caption", reportProgress(progress, "captioning"))
    /\ iIdx' = iIdx + 1
    /\ UNCHANGED << dbVars, visionModel, loaderVars, queueVars, storeVars, spc, squery, sresult,
                    ranQuery, failedExec, iImages, iPdfs, batches, iSaved >>
    /\ UNCHANGED rankVars
    /\ UNCHANGED onProgress

\* destroy() of the captioner settles; delay(COOL_DOWN_MODEL_SWITCH_MS) follows.
IndexUnloadVisDone(fails) ==
    /\ ~MicrotaskPending
    /\ ipc = "unloadVis"
    /\ IF fails
       THEN /\ indexFail("unload", progress)
            /\ UNCHANGED visionModel
       ELSE /\ visionModel' = "null"
            /\ indexGoto("visSettle", progress)
    /\ UNCHANGED << dbVars, loaderVars, queueVars, storeVars, spc, squery, sresult,
                    ranQuery, failedExec, iImages, iPdfs, iIdx, batches, iSaved >>
    /\ UNCHANGED rankVars
    /\ UNCHANGED onProgress

\* The model-switch delay elapses: PHASE 2 or PHASE 3 begins.
IndexVisSettleDone ==
    /\ ~MicrotaskPending
    /\ ipc = "visSettle"
    /\ indexAfterImages(iPdfs, reportProgress(progress, "unloading_vision"))
    /\ indexLocals(iImages, iPdfs, 1)
    /\ UNCHANGED << dbVars, visionModel, queueVars, storeVars, spc, squery, sresult,
                    ranQuery, failedExec, batches, iSaved >>
    /\ UNCHANGED rankVars
    /\ UNCHANGED onProgress

\* generatePdfCaption of one PDF settles (it never throws).
IndexPdfDone ==
    /\ ~MicrotaskPending
    /\ ipc = "pdf"
    /\ IF iIdx < iPdfs
       THEN /\ iIdx' = iIdx + 1
            /\ indexGoto("pdf", reportProgress(progress, "captioning"))
            /\ UNCHANGED << iImages, iPdfs, loaderVars >>
       ELSE /\ indexLoadEmbedder(progress)
            /\ indexLocals(iImages, iPdfs, 1)
    /\ UNCHANGED << dbVars, visionModel, queueVars, storeVars, spc, squery, sresult,
                    ranQuery, failedExec, batches, iSaved >>
    /\ UNCHANGED rankVars
    /\ UNCHANGED onProgress

\* Continuation of `await this.loadEmbeddingModel()` inside indexFiles.
IndexAfterLoad ==
    /\ ipc \in {"loadOk", "loadFail"}
    /\ IF ipc = "loadOk"
       THEN indexEmbedLoop(iImages + iPdfs, progress)
       ELSE indexFail("embedderLoad", progress)
    /\ indexLocals(iImages, iPdfs, 1)
    /\ UNCHANGED << dbVars, visionModel, loaderVars, queueVars, storeVars, spc, squery, sresult,
                    ranQuery, failedExec, batches, iSaved >>
    /\ UNCHANGED rankVars
    /\ UNCHANGED onProgress

\* embed() of item iIdx settles.  The saving loop, when it runs, runs in the
\* same step (saveFileToDatabase uses executeSync, its promise is settled when
\* it is awaited): of the rows it has to write, `saved` are written before a write throws
\* (none throws if all are written and `orphan` is false); `orphan` tells that
\* the throwing write was the INSERT into file_vectors, the FileRecord of that
\* item being written already.
IndexEmbedDone(ok, saved, orphan) ==
    LET n == iImages + iPdfs
        toWrite == pendingSave(iIdx, n, iSaved)
        written == saved + (IF orphan THEN 1 ELSE 0)
        saveThrows == saved < toWrite
    IN  /\ ~MicrotaskPending
        /\ ipc = "embed"
        /\ IF ~ok
           THEN /\ saved = 0 /\ ~orphan
                /\ indexFail("embed", progress)
                /\ UNCHANGED << storeVars, iSaved >>
           ELSE /\ saved \in 0..toWrite
                /\ orphan => saveThrows
                /\ store' = store + saved
                /\ orphanFiles' = orphanFiles + (IF orphan THEN 1 ELSE 0)
                /\ iSaved' = iSaved + written
                /\ IF iIdx < n
                   THEN IF saveThrows
                        THEN indexFail("save", progress)
                        ELSE indexGoto("embedCool", progress)
                   ELSE IF saveThrows
                        THEN indexFail("save", reportProgress(progress, "saving"))
                        ELSE indexComplete(progress)
        /\ indexLocals(iImages, iPdfs, iIdx)
        /\ UNCHANGED << dbVars, visionModel, loaderVars, queueVars, spc, squery, sresult,
                        ranQuery, failedExec, batches >>
        /\ UNCHANGED rankVars
        /\ UNCHANGED onProgress

\* delay(COOL_DOWN_EMBED_MS) elapses; generateEmbedding of the next item starts.
IndexEmbedCoolDone ==
    /\ ~MicrotaskPending
    /\ ipc = "embedCool"
    /\ IF embeddingModel = "null"
       THEN indexFail("embed", reportProgress(progress, "embedding"))
       ELSE indexGoto("embed", reportProgress(progress, "embedding"))
    /\ indexLocals(iImages, iPdfs, iIdx + 1)
    /\ UNCHANGED << dbVars, visionModel, loaderVars, queueVars, storeVars, spc, squery, sresult,
                    ranQuery, failedExec, batches, iSaved >>
    /\ UNCHANGED rankVars
    /\ UNCHANGED onProgress

\* Error cleanup: destroy() of the captioner settles, then the switch delay
\* runs; a throw of destroy() leaves the catch block at once.
IndexErrUnloadVisDone(fails) ==
    /\ ~MicrotaskPending
    /\ ipc = "errUnloadVis"
    /\ IF fails
       THEN /\ indexCleanupThrows
            /\ UNCHANGED visionModel
       ELSE /\ visionModel' = "null"
            /\ ipc' = "errVisSettle"
            /\ UNCHANGED << iresult, iError, progress >>
    /\ indexLocals(iImages, iPdfs, iIdx)
    /\ UNCHANGED << dbVars, loaderVars, queueVars, storeVars, spc, squery, sresult,
                    ranQuery, failedExec, batches, iSaved >>
    /\ UNCHANGED rankVars
    /\ UNCHANGED onProgress

\* Error cleanup: the switch delay elapses; unloadEmbeddingModel follows.
IndexErrVisSettleDone ==
    /\ ~MicrotaskPending
    /\ ipc = "errVisSettle"
    /\ IF embeddingModel # "null"
       THEN /\ ipc' = "errUnloadEmb"
            /\ UNCHANGED << iresult, iError, progress >>
       ELSE indexRethrow
    /\ indexLocals(iImages, iPdfs, iIdx)
    /\ UNCHANGED << dbVars, visionModel, loaderVars, queueVars, storeVars, spc, squery, sresult,
                    ranQuery, failedExec, batches, iSaved >>
    /\ UNCHANGED rankVars
    /\ UNCHANGED onProgress

\* Error cleanup: destroy() of the embedder settles; the error is rethrown,
\* unless destroy() throws.
IndexErrUnloadEmbDone(fails) ==
    /\ ~MicrotaskPending
    /\ ipc = "errUnloadEmb"
    /\ IF fails
       THEN /\ indexCleanupThrows
            /\ UNCHANGED loaderVars
       ELSE /\ unloadEmbeddingModelDone
            /\ indexRethrow
    /\ indexLocals(iImages, iPdfs, iIdx)
    /\ UNCHANGED << dbVars, visionModel, queueVars, storeVars, spc, squery, sresult, ranQuery,
                    failedExec, batches, iSaved >>
    /\ UNCHANGED rankVars
    /\ UNCHANGED onProgress

\* The promise of indexFiles has settled: the continuation of the awaiting
\* caller consumes the outcome of the call.
IndexReturn ==
    /\ iresult \in {"complete", "rejected"}
    /\ iresult' = "none"
    /\ iError' = "none"
    /\ iSaved' = 0
    /\ progress' = << >>
    /\ UNCHANGED << dbVars, visionModel, loaderVars, queueVars, storeVars, spc, squery, sresult,
                    ranQuery, failedExec, ipc, iImages, iPdfs, iIdx, batches >>
    /\ UNCHANGED rankVars
    /\ UNCHANGED onProgress

\* -------------------------------------------- indexFiles(): item by item

\* `files.filter(f => f.type === kind)`, as the indices into files
RECURSIVE filterType(_, _, _)
filterType(fs, kind, from) ==
    IF from > Len(fs) THEN << >>
    ELSE (IF fs[from] = kind THEN << from >> ELSE << >>) \o filterType(fs, kind, from + 1)

images(fs) == filterType(fs, "image", 1)

\* the documents, last submitted first
pdfsReversed(fs) ==
    LET found == filterType(fs, "pdf", 1)
    IN  [k \in 1..Len(found) |-> found[Len(found) + 1 - k]]

pdfs(fs) == filterType(fs, "pdf", 1)

\* no call is followed item by item
NoItems ==
    /\ files = << >>
    /\ itemPc = "idle"
    /\ itemIdx = 0
    /\ captionedFiles = << >>
    /\ embeddedFiles = << >>
    /\ events = << >>

event(op, item) == [op |-> op, item |-> item, failed |-> FALSE]

\* the reset left out after a captioning that failed
resetsContextAfterSuccess(outcome) == visionModel # "null" /\ outcome # "captionFails"

\* `if (this.visionModel)` before `this.visionModel.reset()`
resetsContext(outcome) == visionModel # "null"

\* saveFileToDatabase for the first `saved` embedded files, in order: the row
\* of files, then the row of file_vectors
RECURSIVE saveEvents(_, _)
saveEvents(embedded, saved) ==
    IF saved = 0 THEN << >>
    ELSE saveEvents(embedded, saved - 1)
            \o << event("insertFile", embedded[saved]), event("insertVector", embedded[saved]) >>

\* PHASE 3 begins: the embedder is loaded and the first embed call is made;
\* with nothing captioned the run completes.
itemsEmbedPhase(captioned, done) ==
    IF captioned = << >>
    THEN /\ itemPc' = "done"
         /\ events' = done
         /\ itemIdx' = 0
    ELSE /\ itemPc' = "embed"
         /\ events' = Append(done, event("loadEmbedder", 0))
         /\ itemIdx' = 1

\* PHASE 2 begins: the first document is extracted, if there is one.
itemsPdfPhase(fs, captioned, done) ==
    IF pdfs(fs) # << >>
    THEN /\ itemPc' = "extract"
         /\ events' = done
         /\ itemIdx' = 1
    ELSE itemsEmbedPhase(captioned, done)

ItemFrame ==
    UNCHANGED << dbVars, loaderVars, queueVars, storeVars, spc, squery, sresult, ranQuery,
                 failedExec, indexVars, progress, onProgress, scored, searchResults, rankPc,
                 scoreVars, reportVars, pdfVars, hookVars, readVars,
                    snapshotVars,
                    debounceVars >>

\* indexFiles(fs), up to the first image's captioning (loadVisionModel has
\* returned) or, without images, the first document.
ItemsBegin(fs) ==
    /\ itemPc = "idle"
    /\ ipc = "idle" /\ visionModel = "null"
    /\ files' = fs
    /\ captionedFiles' = << >>
    /\ embeddedFiles' = << >>
    /\ IF images(fs) # << >>
       THEN /\ visionModel' = "ready"
            /\ itemPc' = "caption"
            /\ itemIdx' = 1
            /\ events' = << event("loadVision", 0) >>
       ELSE /\ UNCHANGED visionModel
            /\ itemsPdfPhase(fs, << >>, << >>)
    /\ ItemFrame

\* resize, path conversion, captionImage and createThumbnail of image itemIdx
\* have settled.  captionImage catches its failures; getReadableFilePath throws.
ItemCaptionDone(outcome) ==
    /\ itemPc = "caption"
    /\ IF outcome = "pathFails"
       THEN /\ itemPc' = "failed"
            /\ UNCHANGED << captionedFiles, events, itemIdx >>
       ELSE LET item == images(files)[itemIdx]
                done == Append(events, [op |-> "caption", item |-> item,
                                        failed |-> outcome = "captionFails"])
            IN  /\ captionedFiles' = Append(captionedFiles, item)
                /\ UNCHANGED itemIdx
                /\ IF resetsContext(outcome)
                   THEN itemPc' = "reset" /\ events' = done
                   ELSE IF itemIdx < Len(images(files))
                        THEN itemPc' = "cool" /\ events' = done
                        ELSE itemPc' = "unload" /\ events' = done
    /\ UNCHANGED << files, embeddedFiles, visionModel >>
    /\ ItemFrame

\* `await this.visionModel.reset()` settles.
ItemResetDone(fails) ==
    /\ itemPc = "reset"
    /\ IF fails
       THEN itemPc' = "failed" /\ UNCHANGED events
       ELSE /\ events' = Append(events, event("reset", 0))
            /\ itemPc' = IF itemIdx < Len(images(files)) THEN "cool" ELSE "unload"
    /\ UNCHANGED << files, itemIdx, captionedFiles, embeddedFiles, visionModel >>
    /\ ItemFrame

\* delay(COOL_DOWN_VISION_MS) elapses.
ItemCoolDone ==
    /\ itemPc = "cool"
    /\ events' = Append(events, event("cooldown", 0))
    /\ itemIdx' = itemIdx + 1
    /\ itemPc' = "caption"
    /\ UNCHANGED << files, captionedFiles, embeddedFiles, visionModel >>
    /\ ItemFrame

\* unloadVisionModel() after the image loop has returned.
ItemUnloadDone ==
    /\ itemPc = "unload"
    /\ visionModel' = "null"
    /\ itemsPdfPhase(files, captionedFiles, Append(events, event("unload", 0)))
    /\ UNCHANGED << files, captionedFiles, embeddedFiles >>
    /\ ItemFrame

\* generatePdfCaption of document itemIdx settles (it never throws).
ItemExtractDone ==
    /\ itemPc = "extract"
    /\ LET item == pdfs(files)[itemIdx]
           done == Append(events, event("extract", item))
       IN  /\ captionedFiles' = Append(captionedFiles, item)
           /\ IF itemIdx < Len(pdfs(files))
              THEN /\ itemIdx' = itemIdx + 1
                   /\ events' = done
                   /\ UNCHANGED itemPc
              ELSE itemsEmbedPhase(captionedFiles', done)
    /\ UNCHANGED << files, embeddedFiles, visionModel >>
    /\ ItemFrame

\* embed() of captioned item itemIdx settles.  After the last one the saving
\* loop runs; `saved` rows pairs are written before saveFileToDatabase throws.
ItemEmbedDone(ok, saved) ==
    /\ itemPc = "embed"
    /\ IF ~ok
       THEN /\ saved = 0
            /\ itemPc' = "failed"
            /\ UNCHANGED << embeddedFiles, events, itemIdx >>
       ELSE LET item == captionedFiles[itemIdx]
                embedded == Append(embeddedFiles, item)
                done == Append(events, event("embed", item))
            IN  /\ embeddedFiles' = embedded
                /\ UNCHANGED itemIdx
                /\ IF itemIdx < Len(captionedFiles)
                   THEN /\ saved = 0
                        /\ itemPc' = "embedCool"
                        /\ events' = done
                   ELSE /\ saved \in 0..Len(embedded)
                        /\ events' = done \o saveEvents(embedded, saved)
                        /\ itemPc' = IF saved = Len(embedded) THEN "done" ELSE "failed"
    /\ UNCHANGED << files, captionedFiles, visionModel >>
    /\ ItemFrame

\* delay(COOL_DOWN_EMBED_MS) elapses.
ItemEmbedCoolDone ==
    /\ itemPc = "embedCool"
    /\ itemIdx' = itemIdx + 1
    /\ itemPc' = "embed"
    /\ UNCHANGED << files, captionedFiles, embeddedFiles, events, visionModel >>
    /\ ItemFrame

\* ------------------------------------------------------------ clearAll()

\* The two DELETE statements: both run, the first throws, or the second throws
\* after the first has emptied file_vectors.
DeleteOutcomes == {"ok", "vectorsFail", "filesFail"}

\* clearAll(): initialize if there is no database handle, then delete the
\* vector rows, then the file rows.  Without the tables the first DELETE throws.
ClearAll(outcome, del) ==
    /\ ~MicrotaskPending
    /\ IF db = "null" THEN initialize(outcome) ELSE UNCHANGED dbVars
    /\ ~isInitialized' => del = "vectorsFail"
    /\ IF (db = "null" /\ initializeThrows(outcome)) \/ del = "vectorsFail"
       THEN UNCHANGED storeVars
       ELSE /\ store' = 0
            /\ orphanFiles' = IF del = "ok" THEN 0 ELSE orphanFiles + store
    /\ UNCHANGED << visionModel, loaderVars, queueVars, spc, squery, sresult, ranQuery,
                    failedExec, indexVars, progress >>
    /\ UNCHANGED rankVars
    /\ UNCHANGED onProgress

\* ---------------------------------------------- getAllFiles() / getFileCount()

\* The SELECT of a read service runs or throws.
QueryOutcomes == {"ok", "queryFails"}

\* How a read service ends: it initializes if there is no database handle
\* (outside its try block), then runs its SELECT inside the try block, whose
\* catch returns `neutral`.  Without the tables the SELECT throws.
readService(call, outcome, query, value, neutral) ==
    LET initThrows == db = "null" /\ initializeThrows(outcome)
    IN  [call |-> call,
         failure |-> IF initThrows THEN outcome
                     ELSE IF query = "queryFails" THEN query ELSE "none",
         threw |-> initThrows,
         value |-> IF initThrows \/ query = "queryFails" THEN neutral ELSE value]

\* getAllFiles(): the rows of files, here their number
GetAllFiles(outcome, query) ==
    /\ ~MicrotaskPending
    /\ Len(reads) < MaxReads
    /\ IF db = "null" THEN initialize(outcome) ELSE UNCHANGED dbVars
    /\ ~isInitialized' => query = "queryFails"
    /\ reads' = Append(reads, readService("getAllFiles", outcome, query, store + orphanFiles, 0))
    /\ UNCHANGED << visionModel, loaderVars, queueVars, storeVars, spc, squery, sresult,
                    ranQuery, failedExec, indexVars, progress, onProgress, scored,
                    searchResults, rankPc, scoreVars, reportVars, pdfVars, hookVars,
                    itemVars,
                    snapshotVars,
                    debounceVars >>

\* getFileCount(): `SELECT COUNT(*) as count FROM files`
GetFileCount(outcome, query) ==
    /\ ~MicrotaskPending
    /\ Len(reads) < MaxReads
    /\ IF db = "null" THEN initialize(outcome) ELSE UNCHANGED dbVars
    /\ ~isInitialized' => query = "queryFails"
    /\ reads' = Append(reads, readService("getFileCount", outcome, query, store + orphanFiles, 0))
    /\ UNCHANGED << visionModel, loaderVars, queueVars, storeVars, spc, squery, sresult,
                    ranQuery, failedExec, indexVars, progress, onProgress, scored,
                    searchResults, rankPc, scoreVars, reportVars, pdfVars, hookVars,
                    itemVars,
                    snapshotVars,
                    debounceVars >>

\* ------------------------------------------- useMemoryEngine / IndexingScreen

\* The progress callback of the hook: its progress.phase is the phase of the
\* last snapshot the engine delivered; startIndexing sets 'selecting' first.
hookPhase ==
    IF onProgress = "set" /\ progress # << >> THEN progress[Len(progress)] ELSE "selecting"

\* The phases that clear isIndexing in the hook's callback.
terminalPhases == {"idle", "complete", "error"}

\* state.isIndexing of the hook.  During an indexFiles call it follows the
\* snapshots of the run (startIndexing sets it before the call); startIndexing
\* clears it when the call has returned, and after that only the callback
\* writes it: `isIndexing: !['idle', 'complete', 'error'].includes(phase)`.
isIndexing ==
    IF iresult # "none"
    THEN hookPhase \notin terminalPhases
    ELSE /\ idleProgress # << >>
         /\ idleProgress[1].batches = batches
         /\ idleProgress[1].phase \notin terminalPhases

\* IndexingScreen: `canStart = !isIndexing && selectedFiles.length > 0 &&
\* progress.phase !== 'complete'`, with a non-empty selection and no completed run.
canStart == ~isIndexing

\* IndexingScreen: `hasError = progress.phase === 'error' || !!error`, which
\* renders the Retry button; the hook's error is null from the start of
\* startIndexing until indexFiles has returned.
hasError == hookPhase = "error"

\* Retry is pressed while the indexFiles call that reported error has not yet
\* returned: startIndexing, the selection still being non-empty, calls
\* indexFiles again.
StartIndexingRetry ==
    /\ ~MicrotaskPending
    /\ iresult = "running"
    /\ hasError
    /\ iImages + iPdfs > 0
    /\ ~overlapping
    /\ overlapping' = TRUE
    /\ UNCHANGED << dbVars, visionModel, loaderVars, queueVars, storeVars, spc, squery, sresult,
                    ranQuery, failedExec, indexVars, progress, onProgress, scored,
                    searchResults, rankPc, scoreVars, reportVars, pdfVars, readVars,
                    itemVars,
                    snapshotVars,
                    debounceVars >>

\* ------------------------------------ useMemoryEngine: search, clearSearch

\* An engine search the hook awaits has settled and the rest of the timer
\* callback has not run yet.
ContinuationPending ==
    \E i \in Calls : /\ hookCalls[i] # << >>
                     /\ i \notin hookSettled
                     /\ spc[i] \in {"resolved", "rejected"}

\* What is left unchanged by the hook's search functions, which touch the
\* engine only through engine.search.
HookFrame ==
    UNCHANGED << dbVars, visionModel, loaderVars, queueVars, storeVars, spc, squery, sresult,
                 ranQuery, failedExec, indexVars, progress, onProgress, searchFrame,
                 snapshotVars >>

\* search(query) of the hook: the pending timer is cleared; a blank query
\* empties the results; any other empties them too and arms the timer.
HookSearch(q) ==
    /\ ~MicrotaskPending
    /\ ~ContinuationPending
    /\ searchTimeout' = IF IsBlank(q) THEN << >> ELSE << q >>
    /\ hookResults' = << >>
    /\ lastAction' = << [action |-> "search", query |-> q] >>
    /\ UNCHANGED << hookCalls, hookSettled >>
    /\ HookFrame

\* clearSearch(): the pending timer is cleared and the results are emptied.
ClearSearch ==
    /\ ~MicrotaskPending
    /\ ~ContinuationPending
    /\ searchTimeout' = << >>
    /\ hookResults' = << >>
    /\ lastAction' = << [action |-> "clearSearch", query |-> << >>] >>
    /\ UNCHANGED << hookCalls, hookSettled >>
    /\ HookFrame

\* The debounce timer fires: the callback calls engine.search(query) and
\* awaits it.
HookTimerFires(i) ==
    /\ ~ContinuationPending
    /\ searchTimeout # << >>
    /\ search(i, searchTimeout[1])
    /\ searchTimeout' = << >>
    /\ hookCalls' = [hookCalls EXCEPT ![i] = searchTimeout[1]]
    /\ UNCHANGED << hookResults, lastAction, hookSettled >>
    /\ UNCHANGED << searchFrame >>

\* The rest of the timer callback, after `await engineRef.current.search(query)`:
\* `setSearchResults(results)`; a rejection leaves the results as they are.
HookSearchSettled(i) ==
    /\ hookCalls[i] # << >>
    /\ i \notin hookSettled
    /\ spc[i] \in {"resolved", "rejected"}
    /\ hookResults' = IF spc[i] = "rejected" THEN hookResults
                      ELSE IF sresult[i] = "rows" THEN << hookCalls[i] >>
                      ELSE << >>
    /\ hookSettled' = hookSettled \cup {i}
    /\ UNCHANGED << searchTimeout, lastAction, hookCalls >>
    /\ HookFrame

\* ------------------------------------------------------- specification

EngineInit ==
    /\ db = "null"
    /\ isInitialized = FALSE
    /\ visionModel = "null"
    /\ embeddingModel = "null"
    /\ embeddingModelLoading = FALSE
    /\ embeddingModelLoadPromise = "null"
    /\ searchInProgress = FALSE
    /\ searchQueue = << >>
    /\ store \in 0..MaxInitStored
    /\ loadPc = "idle"
    /\ spc = [i \in Calls |-> "new"]
    /\ squery = [i \in Calls |-> << >>]
    /\ sresult = [i \in Calls |-> "none"]
    /\ ranQuery = [i \in Calls |-> << >>]
    /\ overwritten = {}
    /\ failedExec = {}
    /\ embLoads = 0
    /\ ipc = "idle"
    /\ iImages = 0
    /\ iPdfs = 0
    /\ iIdx = 0
    /\ batches = 0
    /\ iresult = "none"
    /\ iError = "none"
    /\ iSaved = 0
    /\ progress = << >>
    /\ onProgress = "null"
    /\ orphanFiles = 0
    /\ overlapping = FALSE
    /\ reads = << >>
    /\ idleProgress = << >>
    /\ searchTimeout = << >>
    /\ hookResults = << >>
    /\ lastAction = << >>
    /\ hookCalls = [i \in Calls |-> << >>]
    /\ hookSettled = {}
    /\ NoItems

Init ==
    /\ EngineInit
    /\ scored = << >>
    /\ searchResults = << >>
    /\ rankPc = "scored"
    /\ NoScoring
    /\ NoReport
    /\ NoDocument

\* The embedder load task and the continuations of running searches.
EngineNext ==
    \/ \E o \in InitOutcomes : Initialize(o)
    \/ \E i \in Calls, o \in EmbedOutcomes : SearchEmbedDone(i, o)
    \/ \E i \in Calls : SearchAfterLoad(i)
    \/ \E ok \in BOOLEAN : LoadDownloadDone(ok)
    \/ \E ok \in BOOLEAN : LoadInitDone(ok)

\* The steps of a running indexFiles call; `faults` are the values of the
\* rare faults that are explored: the half-written row of saveFileToDatabase
\* and a throw of destroy().
IndexSteps(faults) ==
    \/ \E fails \in faults : IndexUnloadEmbDone(fails)
    \/ IndexEmbSettleDone
    \/ \E ok \in BOOLEAN : IndexVisDownloadDone(ok)
    \/ \E ok \in BOOLEAN : IndexVisInitDone(ok)
    \/ \E o \in CaptionOutcomes : IndexCaptionDone(o)
    \/ IndexCaptionCoolDone
    \/ \E fails \in faults : IndexUnloadVisDone(fails)
    \/ IndexVisSettleDone
    \/ IndexPdfDone
    \/ IndexAfterLoad
    \/ \E ok \in BOOLEAN, saved \in 0..(MaxImages + MaxPdfs), orphan \in faults :
          IndexEmbedDone(ok, saved, orphan)
    \/ IndexEmbedCoolDone
    \/ \E fails \in faults : IndexErrUnloadVisDone(fails)
    \/ IndexErrVisSettleDone
    \/ \E fails \in faults : IndexErrUnloadEmbDone(fails)
    \/ IndexReturn

\* indexFiles is called with a batch of up to MaxImages images and MaxPdfs PDFs.
IndexStart ==
    \E nI \in 0..MaxImages, nP \in 0..MaxPdfs, o \in InitOutcomes : IndexFiles(nI, nP, o)

IndexNext ==
    \/ batches < MaxBatches /\ IndexStart
    \/ IndexSteps({FALSE})

\* The indexing pipeline and the store on their own, observed through the
\* progress callback: up to MaxRuns batches, one after the other, and clearAll
\* calls.
IndexOnlyNext ==
    \/ SetProgressCallback
    \/ batches < MaxRuns /\ IndexStart
    \/ IndexSteps(BOOLEAN)
    \/ \E o \in InitOutcomes : Initialize(o)
    \/ \E ok \in BOOLEAN : LoadDownloadDone(ok)
    \/ \E ok \in BOOLEAN : LoadInitDone(ok)
    \/ \E o \in InitOutcomes, del \in DeleteOutcomes : ClearAll(o, del)

IndexSpec == Init /\ [][IndexOnlyNext]_vars

\* The indexing pipeline driven by the indexing screen: as IndexSpec, and Retry
\* may be pressed whenever the screen offers it.  Two overlapping indexFiles
\* calls are not followed further.
HookNext ==
    \/ ~overlapping /\ IndexOnlyNext
    \/ StartIndexingRetry

HookSpec == Init /\ [][HookNext]_vars

\* The read services, called up to MaxReads times around initialize and
\* clearAll calls.
ReadNext ==
    \/ \E o \in InitOutcomes, q \in QueryOutcomes : GetAllFiles(o, q)
    \/ \E o \in InitOutcomes, q \in QueryOutcomes : GetFileCount(o, q)
    \/ \E o \in InitOutcomes : Initialize(o)
    \/ \E o \in InitOutcomes, del \in DeleteOutcomes : ClearAll(o, del)

ReadSpec == Init /\ [][ReadNext]_vars

\* One indexFiles call over every batch of up to MaxFiles files, followed item
\* by item; model loads succeed, every other step may fail.
Batches == UNION { [1..n -> {"image", "pdf"}] : n \in 0..MaxFiles }

ItemNext ==
    \/ \E fs \in Batches : ItemsBegin(fs)
    \/ \E o \in CaptionOutcomes \ {"resetFails"} : ItemCaptionDone(o)
    \/ \E fails \in BOOLEAN : ItemResetDone(fails)
    \/ ItemCoolDone
    \/ ItemUnloadDone
    \/ ItemExtractDone
    \/ \E ok \in BOOLEAN, saved \in 0..MaxFiles : ItemEmbedDone(ok, saved)
    \/ ItemEmbedCoolDone

ItemSpec == Init /\ [][ItemNext]_vars

\* The whole engine: indexFiles runs interleaved with search calls.  A failing
\* row write leaves nothing behind and destroy() does not throw here; these
\* faults are explored by IndexSpec.
Next ==
    \/ \E i \in 1..MaxOverlap, q \in Queries : Search(i, q)
    \/ EngineNext
    \/ IndexNext

Spec == Init /\ [][Next]_vars

\* The search coordinator and the lifecycle manager, no batch running.
SearchNext ==
    \/ \E i \in Calls, q \in Queries : Search(i, q)
    \/ EngineNext

SearchSpec == Init /\ [][SearchNext]_vars

\* Searches issued through the hook, which has registered its progress
\* callback; no batch running.
HookSearchNext ==
    \/ SetProgressCallback
    \/ SearchNext

HookSearchSpec == Init /\ [][HookSearchNext]_vars

\* The search box of the hook over the search coordinator: queries typed,
\* cleared and debounced, no batch running.
DebounceNext ==
    \/ \E q \in Queries : HookSearch(q)
    \/ ClearSearch
    \/ \E i \in Calls : HookTimerFires(i)
    \/ \E i \in Calls : HookSearchSettled(i)
    \/ EngineNext

DebounceSpec == Init /\ [][DebounceNext]_vars

\* ---------------------------------------------------------------------
\* Lifecycle properties (specification Spec)
\* ---------------------------------------------------------------------

\* C1: mutual exclusion of the two model roles: in every reachable state at most
\* one of the captioner handle (visionModel) and the embedder handle
\* (embeddingModel) is set.
C1_MutualExclusion == ~(visionModel # "null" /\ embeddingModel # "null")

\* C2: every loadEmbeddingModel call that returns normally (its caller's
\* continuation runs with the load promise fulfilled) observes an embedder whose
\* init() has completed.
C2_LoadReturnsInitialized ==
    [][ /\ \A i \in Calls : (spc[i] = "loadOk" /\ spc'[i] # "loadOk") => embeddingModel = "ready"
        /\ (ipc = "loadOk" /\ ipc' # "loadOk") => embeddingModel = "ready" ]_vars

\* C3: the embedder is created, downloaded and initialized exactly once: at most
\* one load is in flight or has succeeded for the resident embedder, however many
\* loadEmbeddingModel calls were made, and an initialized embedder stems from
\* exactly one load.
C3_SingleInitialization ==
    /\ embLoads <= 1
    /\ embeddingModel = "ready" => embLoads = 1
    /\ loadPc # "idle" => embLoads = 1

\* C3 witness: indexFiles and a search both wait on the same in-flight load.
C3_Witness ==
    /\ ipc = "waitLoad"
    /\ \E i \in Calls : spc[i] = "load"
    /\ loadPc # "idle"
    /\ embLoads = 1

\* ---------------------------------------------------------------------
\* Search coordinator properties (specifications SearchSpec, SearchFairSpec)
\* ---------------------------------------------------------------------

\* The continuations of a running search and of the load it waits for are
\* scheduled by the event loop once their native operation settles.
SearchFairness ==
    /\ WF_vars(\E i \in Calls, o \in EmbedOutcomes : SearchEmbedDone(i, o))
    /\ WF_vars(\E i \in Calls : SearchAfterLoad(i))
    /\ WF_vars(\E ok \in BOOLEAN : LoadDownloadDone(ok))
    /\ WF_vars(\E ok \in BOOLEAN : LoadInitDone(ok))

SearchFairSpec == SearchSpec /\ SearchFairness

\* C4: single flight: at most one executeSearch is in progress at any time, and
\* searchInProgress is set while it is.
C4_SingleFlight ==
    /\ Cardinality(Executing) <= 1
    /\ Executing # {} => searchInProgress

\* C4 witness: a second search call arrived while one was executing.
C4_Witness ==
    \E i, j \in Calls : i # j /\ i \in Executing /\ spc[j] = "queued"

\* C5: the queue never holds more than one entry, and a queued query that a
\* later call overwrote is never executed (its call stays queued for ever).
C5_LatestWins ==
    /\ Len(searchQueue) <= 1
    /\ \A i \in overwritten : spc[i] = "queued" /\ ranQuery[i] = << >>

\* C5 witness: "cat", "dog", "cat": the first has run, "dog" was overwritten by
\* the third call, whose "cat" is now executing.
C5_Witness ==
    /\ spc[1] = "resolved"
    /\ 2 \in overwritten /\ squery[2] = <<"d", "o", "g">>
    /\ 3 \in Executing /\ ranQuery[3] = <<"c", "a", "t">>

\* C6: when the in-flight query completes with a query queued, the same step
\* starts executing the newest queued query, with that caller's own query and
\* with searchInProgress set again (so no other search can start in between);
\* every executing call runs its own query and is eventually resolved.
C6_QueuedHandoff ==
    /\ [][ \A i \in Calls :
             (i \in Executing /\ spc'[i] = "resolved" /\ searchQueue # << >>) =>
                LET n == searchQueue[Len(searchQueue)]
                IN  /\ n \in { j \in Calls : spc'[j] \in {"load", "loadOk", "loadFail", "embed"} }
                    /\ ranQuery'[n] = squery[n]
                    /\ searchInProgress'
                    /\ searchQueue' = << >> ]_vars
    /\ [](\A n \in Executing : ranQuery[n] = squery[n] /\ ~IsBlank(squery[n]))
    /\ \A n \in Calls : (n \in Executing) ~> (spc[n] = "resolved" /\ sresult[n] # "none")

\* C6 witness: call 3 was queued behind call 1 (overwriting call 2), taken from
\* the queue when call 1 finished, and has received rows.
C6_Witness ==
    /\ 2 \in overwritten
    /\ spc[1] = "resolved"
    /\ spc[3] = "resolved" /\ sresult[3] = "rows"

\* C7: search never rejects: no call ends in a rejected promise.
C7_NeverRejects == \A i \in Calls : spc[i] # "rejected"

\* C8: a search whose execution failed has returned the empty list, and
\* searchInProgress is set only while some call is inside executeSearch, so the
\* coordinator accepts the next search.
C8_FailureYieldsEmpty ==
    /\ \A i \in failedExec : spc[i] = "resolved" /\ sresult[i] = "empty"
    /\ searchInProgress <=> Executing # {}

\* C8 witness: a search failed, and a later one has run and returned rows.
C8_Witness ==
    \E i \in failedExec, j \in Calls :
        j > i /\ spc[j] = "resolved" /\ sresult[j] = "rows" /\ ~searchInProgress

\* C9: a search call with a blank query resolves at once with the empty list,
\* without touching the embedder, searchInProgress or the queue.
C9_BlankQueryIsEmpty ==
    [][ \A i \in Calls, q \in Queries :
            (IsBlank(q) /\ Search(i, q)) =>
                /\ spc'[i] = "resolved"
                /\ sresult'[i] = "empty"
                /\ UNCHANGED << loaderVars, searchInProgress, searchQueue >> ]_vars

\* The ranking step of executeSearch applied to every scored list of up to
\* MaxRows rows.
RankInit ==
    /\ EngineInit
    /\ scored \in SeqsUpTo(Similarities, MaxRows)
    /\ searchResults = << >>
    /\ rankPc = "scored"
    /\ NoScoring
    /\ NoReport
    /\ NoDocument

RankNext == RankResults

RankSpec == RankInit /\ [][RankNext]_vars

\* ---------------------------------------------------------------------
\* Ranking property (specification RankSpec)
\* ---------------------------------------------------------------------

\* C10: the returned rows are at most SEARCH_RESULTS_LIMIT distinct rows, in
\* non-increasing order of similarity with ties in original row order, and no
\* row left out scores higher than a returned one (nor ties with a returned row
\* that comes later in row order).
C10_TopKOrdered ==
    rankPc = "returned" =>
        LET n == Len(searchResults)
            returned == { searchResults[k] : k \in 1..n }
        IN  /\ n <= SEARCH_RESULTS_LIMIT
            /\ n = (IF Len(scored) < SEARCH_RESULTS_LIMIT THEN Len(scored) ELSE SEARCH_RESULTS_LIMIT)
            /\ returned \subseteq 1..Len(scored)
            /\ Cardinality(returned) = n
            /\ \A k \in 1..(n - 1) :
                  \/ scored[searchResults[k]] > scored[searchResults[k + 1]]
                  \/ /\ scored[searchResults[k]] = scored[searchResults[k + 1]]
                     /\ searchResults[k] < searchResults[k + 1]
            /\ \A out \in (1..Len(scored)) \ returned : \A in \in returned :
                  \/ scored[out] < scored[in]
                  \/ scored[out] = scored[in] /\ in < out

\* C10 witness: more rows than the limit were scored, the returned list is full,
\* carries both similarity values, and a row tying with the last returned row
\* was cut off.
C10_Witness ==
    /\ rankPc = "returned"
    /\ Len(scored) > SEARCH_RESULTS_LIMIT
    /\ Len(searchResults) = SEARCH_RESULTS_LIMIT
    /\ scored[searchResults[1]] > scored[searchResults[SEARCH_RESULTS_LIMIT]]
    /\ \E out \in 1..Len(scored) :
          /\ \A k \in 1..SEARCH_RESULTS_LIMIT : searchResults[k] # out
          /\ scored[out] = scored[searchResults[SEARCH_RESULTS_LIMIT]]

\* The scoring step of executeSearch applied to every query and row drawn from
\* the sets above.
ScoreInit ==
    /\ EngineInit
    /\ scored = << >>
    /\ searchResults = << >>
    /\ rankPc = "scored"
    /\ queryText \in ScoreQueries
    /\ queryEmbedding \in Vectors
    /\ row \in [embedding : Vectors, caption : Captions, filename : Filenames]
    /\ scoreOut = NoScore
    /\ NoReport
    /\ NoDocument

ScoreNext == ScoreRow

ScoreSpec == ScoreInit /\ [][ScoreNext]_vars

\* reportProgress applied to every call (phase, current, total, message) with
\* 0 <= current <= total <= MaxTotal, with a progress callback registered.
ReportPhases == {"captioning", "saving"}

ReportInit ==
    /\ EngineInit
    /\ scored = << >>
    /\ searchResults = << >>
    /\ rankPc = "scored"
    /\ NoScoring
    /\ NoDocument
    /\ \E total \in 0..MaxTotal : \E current \in 0..total : \E phase \in ReportPhases :
           rpCall = << [phase |-> phase, current |-> current, total |-> total,
                        message |-> << current, "/", total >>] >>
    /\ rpDelivered = << >>

ReportNext == SetProgressCallback \/ ReportProgress

ReportSpec == ReportInit /\ [][ReportNext]_vars

\* ------------------------------------------- the reportProgress call sites

\* Download progress fractions: the multiples of 1/MaxFraction in [0, 1].
Fractions == 0..MaxFraction

\* `Math.round(progress * 100)` taken as the raw step count times 100.
downloadCurrentOfSteps(m) == m * 100

\* `Math.round(progress * 100)` for the fraction progress = m / MaxFraction.
downloadCurrent(m) ==
    IF m = 0 THEN 0 ELSE MathRound(Times100(Quotient64(m, MaxFraction)))

reportCall(phase, current, total) ==
    [phase |-> phase, current |-> current, total |-> total,
     message |-> << current, "/", total >>]

\* The calls of loadVisionModel, unloadVisionModel and loadEmbeddingModel.
modelReportCalls ==
    { reportCall(phase, 0, 1) : phase \in {"loading_vision", "unloading_vision", "loading_embedding"} }
    \cup { reportCall(phase, 1, 1) :
               phase \in {"loading_vision", "unloading_vision", "loading_embedding"} }
    \cup { reportCall(phase, downloadCurrent(m), 100) :
               phase \in {"loading_vision", "loading_embedding"}, m \in Fractions }

\* The document loop reports against `totalFiles = files.length`.
documentTotal(nImages, nPdfs) == nImages + nPdfs

\* The calls of indexFiles for a batch of nImages images and nPdfs PDFs:
\* image loop, document loop, embedding loop, saving loop, complete, error.
indexReportCalls(nImages, nPdfs) ==
    LET totalFiles == nImages + nPdfs
    IN  { reportCall("captioning", i + 1, nImages) : i \in 0..(nImages - 1) }
        \cup { reportCall("captioning", nImages + i + 1, documentTotal(nImages, nPdfs)) :
                     i \in 0..(nPdfs - 1) }
        \cup { reportCall("embedding", i + 1, totalFiles) : i \in 0..(totalFiles - 1) }
        \cup { reportCall("saving", 0, totalFiles) }
        \cup { reportCall("saving", i + 1, totalFiles) : i \in 0..(totalFiles - 1) }
        \cup { reportCall("complete", totalFiles, totalFiles) }
        \cup { reportCall("error", 0, 0) }

\* The batch compositions (images, PDFs) of up to MaxTotal files.
Compositions == { b \in (0..MaxTotal) \X (0..MaxTotal) : b[1] + b[2] <= MaxTotal }

\* Every call the engine makes, over these batches.
reportCalls ==
    modelReportCalls \cup UNION { indexReportCalls(b[1], b[2]) : b \in Compositions }

CallSiteInit ==
    /\ EngineInit
    /\ scored = << >>
    /\ searchResults = << >>
    /\ rankPc = "scored"
    /\ NoScoring
    /\ NoDocument
    /\ \E call \in reportCalls : rpCall = << call >>
    /\ rpDelivered = << >>

CallSiteSpec == CallSiteInit /\ [][ReportNext]_vars

\* generatePdfCaption applied to documents whose extraction throws or returns
\* a text of up to MaxTextLen characters.
PdfNames == { << "a", "_", "b", ".", "p", "d", "f" >>, << "r", "-", "1", ".", "P", "D", "F" >>,
              << "n", "o", "t", "e" >>, << "x", ".", "p", "d", "f", ".", "t" >> }

Extractions ==
    { [throws |-> TRUE, text |-> << >>] }
        \cup { [throws |-> FALSE, text |-> [i \in 1..n |-> "x"]] : n \in 0..MaxTextLen }

CaptionInit ==
    /\ EngineInit
    /\ scored = << >>
    /\ searchResults = << >>
    /\ rankPc = "scored"
    /\ NoScoring
    /\ NoReport
    /\ pdfFile \in { << [name |-> nm, extraction |-> e] >> : nm \in PdfNames, e \in Extractions }
    /\ pdfItems = << >>

CaptionNext == GeneratePdfCaption

CaptionSpec == CaptionInit /\ [][CaptionNext]_vars


\* ---------------------------------------------------------------------
\* Scoring properties (specification ScoreSpec)
\* ---------------------------------------------------------------------

\* C11: every scored entry has similarity in [0, 1] and distance equal to
\* 1 - similarity, hence distance in [0, 1] as well.
C11_SimilarityInUnitInterval ==
    scoreOut.done =>
        /\ scoreOut.similarity \in 0..1000
        /\ scoreOut.distance = 1000 - scoreOut.similarity
        /\ scoreOut.distance \in 0..1000

\* C12: a row whose embedding length differs from the query embedding's gets the
\* semantic term 0: it is still scored, and its similarity is the one the
\* keyword term alone yields.
C12_DimensionMismatchScoresZero ==
    (scoreOut.done /\ Len(row.embedding) # Len(queryEmbedding)) =>
        /\ scoreOut.semanticScore = 0
        /\ scoreOut.similarity = displaySimilarity(hybridScore(0, scoreOut.keywordScore))
        /\ scoreOut.distance = 1000 - scoreOut.similarity

\* C12 witness: a mismatching row with non-zero components is scored, and its
\* keyword match gives it a positive similarity.
C12_Witness ==
    /\ scoreOut.done
    /\ Len(row.embedding) # Len(queryEmbedding)
    /\ Len(row.embedding) > 0 /\ Len(queryEmbedding) > 0
    /\ row.embedding[1] * queryEmbedding[1] # 0
    /\ scoreOut.keywordScore > 0
    /\ scoreOut.similarity > 0

\* ---------------------------------------------------------------------
\* Indexing pipeline properties (specification IndexSpec)
\* ---------------------------------------------------------------------

\* C13: the phases reported during one indexFiles run are strictly ordered
\* loading_vision, captioning, unloading_vision, loading_embedding, embedding,
\* saving, complete: of two phases reported one after the other (error
\* excepted), the later one comes later in this order.
C13_PhasesOrdered ==
    LET order == << "loading_vision", "captioning", "unloading_vision", "loading_embedding",
                    "embedding", "saving", "complete" >>
        rank(p) == CHOOSE k \in 1..Len(order) : order[k] = p
    IN  \A i, j \in 1..Len(progress) :
            (i < j /\ progress[i] # "error" /\ progress[j] # "error")
                => rank(progress[i]) < rank(progress[j])

\* C14: no phase is skipped unless its input set is empty: a run that completes
\* with at least one file has reported loading_embedding, embedding and saving,
\* and with at least one image loading_vision, captioning and unloading_vision,
\* whichever models were resident when it started.
C14_NoPhaseSkipped ==
    [][ (iresult = "running" /\ iresult' = "complete" /\ onProgress = "set") =>
            LET reported == { progress'[k] : k \in 1..Len(progress') }
            IN  /\ iImages + iPdfs >= 1 =>
                       {"loading_embedding", "embedding", "saving"} \subseteq reported
                /\ iImages >= 1 =>
                       {"loading_vision", "captioning", "unloading_vision"} \subseteq reported
      ]_vars

\* C15: indexFiles with an empty batch completes immediately: it loads no model
\* (no embedder load is in flight while it runs), the only phase it reports is
\* complete, and it persists nothing.
C15_EmptyBatchCompletesImmediately ==
    /\ (iresult = "running" /\ iImages + iPdfs = 0) =>
           (loadPc = "idle" /\ visionModel = "null" /\ progress = << >>)
    /\ (iresult = "complete" /\ iSaved = 0) => progress \in { << >>, << "complete" >> }

\* C16: in a batch of documents only (no image, at least one PDF) no step of
\* the run, on the success path or on the failure path, loads or unloads the
\* captioner or reports loading_vision or unloading_vision, and no step unloads
\* a resident (initialized) embedder.
C16_DocumentsSkipVision ==
    [][ /\ (iresult' = "running" /\ iImages' = 0 /\ iPdfs' > 0) =>
               /\ visionModel' = visionModel
               /\ \A k \in 1..Len(progress') :
                      progress'[k] \notin {"loading_vision", "unloading_vision"}
        /\ (iresult = "running" /\ iImages = 0 /\ iPdfs > 0) =>
               /\ visionModel' = visionModel
               /\ \A k \in 1..Len(progress') :
                      progress'[k] \notin {"loading_vision", "unloading_vision"}
               /\ embeddingModel = "ready" => embeddingModel' = "ready"
      ]_vars

\* C17: a failure while captioning one image (in the path resolution, in the
\* captioning call or in the context reset) never aborts the batch: the step
\* that ends the captioning of an image never raises an error, the run goes on
\* with the next item.
C17_CaptionFailureIsItemScoped ==
    [][ ipc = "caption" => (iError' = "none" /\ iresult' = "running") ]_vars

C19_StoreConsistent == ipc = "idle" => orphanFiles = 0

\* C20: on any fatal error of indexFiles the error phase is reported, both
\* models are unloaded (both handles are unset when indexFiles returns) and the
\* error raised to the caller is the error that caused the abort.
C20_FatalErrorCleansUp ==
    iresult = "rejected" =>
        /\ onProgress = "set" => \E k \in 1..Len(progress) : progress[k] = "error"
        /\ visionModel = "null"
        /\ embeddingModel = "null"
        /\ iError # "cleanup"

\* C21: when indexFiles completes successfully, complete is the last phase
\* reported, the embedder is resident and fully initialized, and the captioner
\* is not resident.
C21_CompleteLeavesEmbedderOnly ==
    iresult = "complete" =>
        /\ onProgress = "set" => (progress # << >> /\ progress[Len(progress)] = "complete")
        /\ embeddingModel = "ready"
        /\ visionModel = "null"

\* C22: if loading a model fails (download or initialization error), for
\* either role, the failure propagates to the caller of the load and the handle
\* of that role is unset when the load call returns: the step in which the
\* captioner load throws leaves visionModel unset, the step in which the
\* embedder load rejects leaves embeddingModel unset.
C22_FailedLoadUnsetsHandle ==
    [][ /\ (ipc \in {"visDownload", "visInit"} /\ iError' = "visionLoad") =>
               visionModel' = "null"
        /\ (loadPc # "idle" /\ embeddingModelLoadPromise' = "rejected") =>
               embeddingModel' = "null"
      ]_vars

\* C23: a model load failure is retryable: once an embedder load has failed the
\* loading flag is cleared and the handle is unset, and an indexFiles call made
\* after the failure that reaches its embedder load starts a fresh
\* download/init: it neither returns early nor awaits the load that failed.
C23_FailedLoadRetryable ==
    [][ /\ embeddingModelLoadPromise' = "rejected" =>
               (~embeddingModelLoading' /\ loadPc' = "idle" /\ embeddingModel' = "null")
        /\ (embeddingModelLoadPromise = "rejected" /\ ipc \notin {"waitLoad", "loadOk"}
                /\ ipc' \in {"waitLoad", "loadOk"}) =>
               (ipc' = "waitLoad" /\ embeddingModelLoadPromise' = "pending"
                    /\ loadPc' = "download")
      ]_vars

\* C23 witness: indexFiles has failed because its embedder load failed, and the
\* batch can be resubmitted.
C23_Witness ==
    /\ embeddingModelLoadPromise = "rejected"
    /\ iError = "embedderLoad"
    /\ iresult = "rejected"
    /\ batches < MaxRuns

\* C24: model-switch ordering: whenever a model of one role starts loading
\* while the model of the other role was resident, the destroy() of the other
\* model has completed and the cooldown wait has elapsed before the creation of
\* the new model: no captioner is created and no embedder load starts in a
\* state in which the other role's model is resident, and a captioner that
\* replaces a resident embedder is created by the step that ends the cooldown.
C24_SwitchOrdering ==
    [][ /\ (visionModel # "created" /\ visionModel' = "created") =>
               (embeddingModel # "ready" /\ ipc \in {"idle", "embSettle"})
        /\ (loadPc = "idle" /\ loadPc' = "download") => visionModel # "ready"
      ]_vars

\* ---------------------------------------------------------------------
\* C26  For every reportProgress(phase, current, total, message), the
\* snapshot delivered to the observer carries phase, current, total and
\* message unchanged and has percentage = round(100 * current / total)
\* when total > 0 and 0 when total = 0.
\* ---------------------------------------------------------------------
C26_SnapshotPercentage ==
    \A i \in 1..Len(rpDelivered) :
        LET call == rpCall[1]
            snapshot == rpDelivered[i]
            \* 100 * current / total rounded to the nearest integer, halves up
            rounded == (200 * call.current + call.total) \div (2 * call.total)
        IN  /\ snapshot.phase = call.phase
            /\ snapshot.current = call.current
            /\ snapshot.total = call.total
            /\ snapshot.message = call.message
            /\ snapshot.percentage = IF call.total > 0 THEN rounded ELSE 0

C25_SuccessfulRunPersistsAll ==
    [][ (iresult # "complete" /\ iresult' = "complete" /\ iImages + iPdfs > 0) =>
            LET N == iImages + iPdfs
                final == completeSnapshot(N)
            IN  /\ store' = store + N
                /\ orphanFiles' = orphanFiles
                /\ iSaved' = N
                /\ onProgress = "set" => progress'[Len(progress')] = final.phase
                /\ final.phase = "complete" /\ final.current = N /\ final.total = N
                /\ final.percentage = 100
                /\ \A nm \in PdfNames :
                       generatePdfCaption(nm, [throws |-> FALSE, text |-> << >>])
                           = << "PDF document: " >> \o cleanName(nm) ]_vars

\* a run over MaxImages images and MaxPdfs documents has completed, with an
\* observer registered
C25_Witness ==
    /\ iresult = "complete"
    /\ iSaved = MaxImages + MaxPdfs
    /\ onProgress = "set"

\* ---------------------------------------------------------------------
\* C28  At most one batch is in flight at a time: no indexFiles call
\* begins while an earlier indexFiles call has not yet returned, including
\* while the earlier call is still cleaning up after reporting error.
\* ---------------------------------------------------------------------
C28_OneBatchInFlight == ~overlapping

\* ---------------------------------------------------------------------
\* C29  Whenever a search computes its query embedding, the embedder is
\* resident and its initialization has completed: no embed call is issued
\* to an embedder that is absent or still downloading / initializing, also
\* when the pipeline or another caller is loading the embedder.
\* ---------------------------------------------------------------------
C29_SearchEmbedsOnReadyEmbedder ==
    [][ \A i \in Calls :
            (spc[i] # "embed" /\ spc'[i] = "embed") => embeddingModel' = "ready" ]_vars

\* ---------------------------------------------------------------------
\* C30  The read services return a neutral value instead of throwing to
\* the UI layer: on any storage failure (including failure to open or
\* initialize the database) getAllFiles returns an empty list and
\* getFileCount returns 0.
\* ---------------------------------------------------------------------
C30_ReadsReturnNeutral ==
    \A k \in 1..Len(reads) :
        reads[k].failure # "none" => (~reads[k].threw /\ reads[k].value = 0)

\* ---------------------------------------------------------------------
\* C33  Every search call eventually settles: for any pattern of
\* overlapping search calls, each returned promise is eventually resolved
\* or rejected, including the promise of a caller whose queued query was
\* overwritten by a later call.
\* ---------------------------------------------------------------------
C33_EverySearchSettles ==
    \A i \in Calls : (spc[i] # "new") ~> (spc[i] \in {"resolved", "rejected"})

\* ---------------------------------------------------------------------
\* C35  error is terminal within a run: once indexFiles has reported phase
\* error, that run reports no snapshot with any other phase, so the last
\* snapshot the observer receives from a failed run has phase error.
\* ---------------------------------------------------------------------
C35_ErrorIsTerminal ==
    \A k \in 1..Len(progress) : progress[k] = "error" => k = Len(progress)

\* ---------------------------------------------------------------------
\* C40  Search coordinator bookkeeping: in every reachable state a
\* non-empty pending queue implies a search is in progress, and once every
\* search call made has settled, searchInProgress is false and the queue is
\* empty, whether the executed queries succeeded or failed.
\* ---------------------------------------------------------------------
C40_QueueBookkeeping ==
    /\ searchQueue # << >> => searchInProgress
    /\ (\A i \in Calls : spc[i] \in {"new", "resolved", "rejected"}) =>
           (~searchInProgress /\ searchQueue = << >>)

\* C40 witness: every call has settled, one of them after waiting in the queue
\* behind a search that failed.
C40_Witness ==
    /\ \A i \in Calls : spc[i] = "resolved"
    /\ 1 \in failedExec
    /\ sresult[2] = "rows"
    /\ ~searchInProgress /\ searchQueue = << >>

\* ---------------------------------------------------------------------
\* C31  In a successful run every submitted file is captioned exactly
\* once, embedded exactly once and persisted exactly once; items are
\* embedded and persisted in the combined order (all images in submission
\* order, then all documents in submission order); each item's FileRecord
\* insert precedes its VectorRow insert and both precede the next item's.
\* ---------------------------------------------------------------------
C31_EveryItemOnceInOrder ==
    itemPc = "done" =>
        LET at(op) == { k \in 1..Len(events) : events[k].op = op }
            once(ops, i) ==
                Cardinality({ k \in 1..Len(events) :
                                events[k].op \in ops /\ events[k].item = i }) = 1
            before(a, b) ==
                \/ files[a] = "image" /\ files[b] = "pdf"
                \/ files[a] = files[b] /\ a < b
            ordered(op) ==
                \A k, m \in at(op) : k < m => before(events[k].item, events[m].item)
        IN  /\ \A i \in 1..Len(files) :
                   /\ once({IF files[i] = "image" THEN "caption" ELSE "extract"}, i)
                   /\ once({"caption", "extract"}, i)
                   /\ once({"embed"}, i)
                   /\ once({"insertFile"}, i)
                   /\ once({"insertVector"}, i)
            /\ ordered("embed")
            /\ ordered("insertFile")
            /\ \A k \in at("insertFile") :
                   /\ k < Len(events)
                   /\ events[k + 1].op = "insertVector"
                   /\ events[k + 1].item = events[k].item
            /\ \A k \in at("insertVector") : events[k - 1].op = "insertFile"

\* C31 witness: a batch submitted as document, image, document, ... has been
\* indexed.
C31_Witness ==
    /\ itemPc = "done"
    /\ Len(files) = MaxFiles
    /\ files[1] = "pdf" /\ files[2] = "image" /\ files[3] = "pdf"

C36_NoDestroyDuringEmbed ==
    ~(/\ \E i \in Calls : spc[i] = "embed"
      /\ ipc \in {"unloadEmb", "errUnloadEmb"})

\* ---------------------------------------------------------------------
\* C37  A failed batch leaves the store unchanged: when indexFiles has
\* raised, for any reason (a persistence failure on the k-th item of the
\* saving loop included), the run has written no FileRecord and no
\* VectorRow, so that the persisted sets equal those before the call.
\* ---------------------------------------------------------------------
C37_FailedBatchWritesNothing ==
    (iresult = "rejected" /\ ipc = "idle") => iSaved = 0

\* ---------------------------------------------------------------------
\* C34  The hook's state.isIndexing is true only while an indexFiles call
\* is in flight: the snapshots emitted outside a batch (the on-demand
\* embedder load of a search reports loading_embedding) never leave
\* isIndexing true, so Start Indexing is never disabled with no batch running.
\* ---------------------------------------------------------------------
C34_IsIndexingOnlyDuringBatch ==
    (iresult = "none" /\ ipc = "idle") => (~isIndexing /\ canStart)

\* ---------------------------------------------------------------------
\* C38  Every progress snapshot the engine emits has 0 <= current <= total
\* whenever total > 0, and 0 <= percentage <= 100, for every batch
\* composition and every download-progress fraction in [0, 1].
\* ---------------------------------------------------------------------
C38_SnapshotInRange ==
    \A i \in 1..Len(rpDelivered) :
        LET snapshot == rpDelivered[i]
        IN  /\ snapshot.total > 0 => (0 <= snapshot.current /\ snapshot.current <= snapshot.total)
            /\ 0 <= snapshot.percentage /\ snapshot.percentage <= 100

\* C38 witness: a download snapshot for a fraction strictly between 0 and 1
\* has been delivered.
C38_Witness ==
    /\ rpDelivered # << >>
    /\ rpDelivered[1].phase = "loading_vision"
    /\ rpDelivered[1].total = 100
    /\ rpDelivered[1].current \in 1..99
    /\ rpDelivered[1].percentage = rpDelivered[1].current

\* ---------------------------------------------------------------------
\* C39  Once all outstanding searches have settled, the hook's
\* searchResults are those of the most recently submitted query, and are
\* empty if the most recent action was a blank query or clearSearch: the
\* result of an earlier search never overwrites the state a later query or
\* clear has set.
\* ---------------------------------------------------------------------
C39_ResultsOfLatestQuery ==
    (/\ searchTimeout = << >>
     /\ \A i \in Calls : hookCalls[i] # << >> => i \in hookSettled)
        => (hookResults # << >> =>
               /\ lastAction # << >>
               /\ ~IsBlank(lastAction[1].query)
               /\ hookResults = << lastAction[1].query >>)

====
